---- MODULE Spec2Model ----
(***************************************************************************)
(* Model of the database gateway of github-project-agent (db.ts): the      *)
(* lazily created pg connection pool, getSchema, ensureSelectOnly and      *)
(* runQuery.  SQL text is a sequence of one-character strings, so that     *)
(* trimming, splitting, prefix tests, the forbidden-keyword regular        *)
(* expression and the placeholder scan are computed character by           *)
(* character, as the code computes them.                                   *)
(***************************************************************************)
EXTENDS Integers, Sequences, FiniteSets, TLC

\* ------------------------------------------------------------------------
\* Bounds of the model

\* longest SQL input, in fragments, of the validation specification
MaxFrags == 3
\* longest SQL input, in fragments, of the argument specification
MaxArgFrags == 3
\* longest params list supplied by a caller
MaxParams == 2
\* largest row count the store answers with
MaxRows == 1

\* ------------------------------------------------------------------------
\* Characters and strings

UpperLetters ==
    <<"A","B","C","D","E","F","G","H","I","J","K","L","M",
      "N","O","P","Q","R","S","T","U","V","W","X","Y","Z">>

LowerLetters ==
    <<"a","b","c","d","e","f","g","h","i","j","k","l","m",
      "n","o","p","q","r","s","t","u","v","w","x","y","z">>

Digits == <<"0","1","2","3","4","5","6","7","8","9">>

Range(f) == {f[i] : i \in DOMAIN f}

\* the lower-case letter of each upper-case letter
LowerOf ==
    [c \in Range(UpperLetters) |->
        LowerLetters[CHOOSE i \in DOMAIN UpperLetters : UpperLetters[i] = c]]

\* String.prototype.toLowerCase, one character
LowerChar(c) == IF c \in DOMAIN LowerOf THEN LowerOf[c] ELSE c

\* String.prototype.toLowerCase
ToLowerCase(s) == [i \in DOMAIN s |-> LowerChar(s[i])]

\* white space removed by String.prototype.trim
WhiteSpace == {" ", "\t", "\n", "\r"}

\* String.prototype.trim
Trim(s) ==
    LET keep == {i \in DOMAIN s : s[i] \notin WhiteSpace}
    IN  IF keep = {} THEN <<>>
        ELSE LET lo == CHOOSE i \in keep : \A j \in keep : i <= j
                 hi == CHOOSE i \in keep : \A j \in keep : j <= i
             IN  SubSeq(s, lo, hi)

\* String.prototype.startsWith
StartsWith(s, prefix) ==
    /\ Len(prefix) <= Len(s)
    /\ SubSeq(s, 1, Len(prefix)) = prefix

\* String.prototype.endsWith
EndsWith(s, suffix) ==
    /\ Len(suffix) <= Len(s)
    /\ SubSeq(s, Len(s) - Len(suffix) + 1, Len(s)) = suffix

\* String.prototype.slice(0, n) for n >= 0
SliceHead(s, n) == SubSeq(s, 1, IF n < Len(s) THEN n ELSE Len(s))

\* String.prototype.slice(0, -1)
DropLast(s) == SubSeq(s, 1, Len(s) - 1)

\* String.prototype.split on a one-character separator
RECURSIVE Split(_, _)
Split(s, sep) ==
    LET hits == {i \in DOMAIN s : s[i] = sep}
    IN  IF hits = {} THEN <<s>>
        ELSE LET i == CHOOSE k \in hits : \A j \in hits : k <= j
             IN  <<SubSeq(s, 1, i - 1)>> \o Split(SubSeq(s, i + 1, Len(s)), sep)

\* Array.prototype.filter(Boolean) on strings: the empty string is falsy
FilterBoolean(parts) == SelectSeq(parts, LAMBDA x : x # <<>>)

\* the characters \w matches
WordChars ==
    Range(UpperLetters) \cup Range(LowerLetters) \cup Range(Digits) \cup {"_"}

\* \w of a JavaScript regular expression
IsWordChar(c) == c \in WordChars

\* the characters \d matches
DigitChars == Range(Digits)

\* \d of a JavaScript regular expression
IsDigit(c) == c \in DigitChars

DigitValue(c) == (CHOOSE i \in DOMAIN Digits : Digits[i] = c) - 1

\* Number(<decimal digits>)
RECURSIVE Number(_)
Number(ds) ==
    IF ds = <<>> THEN 0
    ELSE 10 * Number(DropLast(ds)) + DigitValue(ds[Len(ds)])

\* the decimal text of a non-negative integer inside a template literal
RECURSIVE NumToStr(_)
NumToStr(n) ==
    IF n < 10 THEN <<Digits[n + 1]>>
    ELSE NumToStr(n \div 10) \o <<Digits[(n % 10) + 1]>>

Max2(a, b) == IF a >= b THEN a ELSE b

Min2(a, b) == IF a <= b THEN a ELSE b

SetMax(S) == CHOOSE x \in S : \A y \in S : y <= x

\* ------------------------------------------------------------------------
\* ensureSelectOnly

\* the alternatives of the forbidden-keyword regular expression
ForbiddenWords ==
    { <<"i","n","s","e","r","t">>,
      <<"u","p","d","a","t","e">>,
      <<"d","e","l","e","t","e">>,
      <<"a","l","t","e","r">>,
      <<"d","r","o","p">>,
      <<"c","r","e","a","t","e">>,
      <<"t","r","u","n","c","a","t","e">>,
      <<"g","r","a","n","t">>,
      <<"r","e","v","o","k","e">>,
      <<"v","a","c","u","u","m">>,
      <<"a","n","a","l","y","z","e">>,
      <<"r","e","i","n","d","e","x">> }

\* \b after position k of s, where s[k] is a word character
WordBoundaryAfter(s, k) == k = Len(s) \/ ~IsWordChar(s[k + 1])

\* the expression without its flag i
MatchesWordAtCaseSensitive(s, w, i) ==
    /\ i + Len(w) - 1 <= Len(s)
    /\ SubSeq(s, i, i + Len(w) - 1) = w
    /\ WordBoundaryAfter(s, i + Len(w) - 1)

\* (w)\b with flag i matches s at position i
MatchesWordAt(s, w, i) ==
    /\ i + Len(w) - 1 <= Len(s)
    /\ LowerChar(s[i]) = w[1]
    /\ ToLowerCase(SubSeq(s, i, i + Len(w) - 1)) = w
    /\ WordBoundaryAfter(s, i + Len(w) - 1)

\* forbidden.test(noSemi)
ForbiddenTest(s) ==
    \E w \in ForbiddenWords : \E i \in DOMAIN s : MatchesWordAt(s, w, i)

\* the prefixes the head of a statement may start with
AllowedHeads == { <<"s","e","l","e","c","t">>, <<"w","i","t","h">> }

\* the number of characters of the statement the head test looks at
HeadLen == 20

\* the head test without toLowerCase()
HeadAllowedCaseSensitive(noSemi) ==
    LET head == SliceHead(Trim(noSemi), HeadLen)
    IN  \E h \in AllowedHeads : StartsWith(head, h)

\* head.startsWith("select") || head.startsWith("with")
HeadAllowed(noSemi) ==
    LET head == ToLowerCase(SliceHead(Trim(noSemi), HeadLen))
    IN  \E h \in AllowedHeads : StartsWith(head, h)

\* s.split(";").filter(Boolean).length > 1
MultipleStatements(s) == Len(FilterBoolean(Split(s, ";"))) > 1

\* s.endsWith(";") ? s.slice(0, -1) : s
RemoveTrailingSemi(s) == IF EndsWith(s, <<";">>) THEN DropLast(s) ELSE s

\* the keyword rule applied before the head rule
ensureSelectOnlyForbiddenFirst(sql) ==
    LET s == Trim(sql)
        noSemi == RemoveTrailingSemi(s)
    IN  IF MultipleStatements(s)
        THEN [err |-> "single", safeSql |-> <<>>]
        ELSE IF ForbiddenTest(noSemi)
        THEN [err |-> "forbidden", safeSql |-> <<>>]
        ELSE IF ~HeadAllowed(noSemi)
        THEN [err |-> "select", safeSql |-> <<>>]
        ELSE [err |-> "none", safeSql |-> noSemi]

\* ensureSelectOnly: err is "none" and safeSql the returned text, or err
\* names the Error thrown
ensureSelectOnly(sql) ==
    LET s == Trim(sql)
        noSemi == RemoveTrailingSemi(s)
    IN  IF MultipleStatements(s)
        THEN [err |-> "single", safeSql |-> <<>>]
        ELSE IF ~HeadAllowed(noSemi)
        THEN [err |-> "select", safeSql |-> <<>>]
        ELSE IF ForbiddenTest(noSemi)
        THEN [err |-> "forbidden", safeSql |-> <<>>]
        ELSE [err |-> "none", safeSql |-> noSemi]

\* the errors ensureSelectOnly throws
ValidationErrors == {"single", "select", "forbidden"}

\* ------------------------------------------------------------------------
\* runQuery: clamping, placeholder scan and wrapping

LimitDefault == 200
LimitCap == 2000
OffsetDefault == 0
TimeoutDefault == 15000
TimeoutFloor == 1000
TimeoutCap == 60000

\* limit || 200: a limit of 0 replaced by the default
ClampLimitFalsy(limit) ==
    Max2(0, Min2(IF limit = 0 THEN LimitDefault ELSE limit, LimitCap))

\* the clamp without its lower bound
ClampLimitNoFloor(limit) == Min2(limit, LimitCap)

\* Math.max(0, Math.min(limit ?? 200, 2000))
ClampLimit(limit) == Max2(0, Min2(limit, LimitCap))

\* Math.max(0, offset ?? 0)
ClampOffset(offset) == Max2(0, offset)

\* the timeout clamped from below only
ClampTimeoutNoCap(timeoutMs) == Max2(TimeoutFloor, timeoutMs)

\* Math.max(1000, Math.min(timeoutMs, 60000))
ClampTimeout(timeoutMs) == Max2(TimeoutFloor, Min2(timeoutMs, TimeoutCap))

\* the digits that (\d+) captures when it starts at position i
RECURSIVE DigitRun(_, _)
DigitRun(s, i) ==
    IF i <= Len(s) /\ IsDigit(s[i]) THEN <<s[i]>> \o DigitRun(s, i + 1) ELSE <<>>

\* [...safeSql.matchAll(/\$(\d+)/g)].map(m => Number(m[1]) || 0), as a set
PlaceholderIndices(s) ==
    { Number(DigitRun(s, i + 1)) :
        i \in {k \in DOMAIN s : s[k] = "$" /\ k < Len(s) /\ IsDigit(s[k + 1])} }

\* matches.length ? Math.max(...) : 0
MaxInSql(s) ==
    IF PlaceholderIndices(s) = {} THEN 0 ELSE SetMax(PlaceholderIndices(s))

\* the base taken from the params alone
BaseOfParams(safeSql, params) == Len(params)

\* Math.max(maxInSql, params.length)
Base(safeSql, params) == Max2(MaxInSql(safeSql), Len(params))

LimitIdx(safeSql, params) == Base(safeSql, params) + 1

OffsetIdx(safeSql, params) == Base(safeSql, params) + 2

WrapHead == <<"s","e","l","e","c","t"," ","*"," ","f","r","o","m"," ","("," ">>

WrapLimit == <<" ",")"," ","a","s"," ","t"," ","l","i","m","i","t"," ","$">>

WrapOffset == <<" ","o","f","f","s","e","t"," ","$">>

\* `select * from ( ${safeSql} ) as t limit $${limitIdx} offset $${offsetIdx}`
Wrapped(safeSql, limitIdx, offsetIdx) ==
    WrapHead \o safeSql \o WrapLimit \o NumToStr(limitIdx)
             \o WrapOffset \o NumToStr(offsetIdx)

\* the values with the offset before the limit
ValuesOffsetFirst(params, clampedLimit, clampedOffset) ==
    params \o <<clampedOffset, clampedLimit>>

\* [...params, clampedLimit, clampedOffset]
Values(params, clampedLimit, clampedOffset) ==
    params \o <<clampedLimit, clampedOffset>>

\* ------------------------------------------------------------------------
\* State

VARIABLES
    call,        \* per caller: the runQuery or getSchema call it is in
    pool,        \* the module variable pool: "null" or "pool"
    poolCount,   \* how many times new Pool(...) has run
    checkedOut,  \* the pool's connections that are checked out
    dbUrl,       \* whether process.env.DATABASE_URL is set
    dataStore,   \* how many rows the data store holds for the inner queries
    dateTool,    \* the execution of the current_date tool: clock, zone, result
    slack        \* the Slack event being handled and what its handler did

vars == <<call, pool, poolCount, checkedOut, dbUrl, dataStore, dateTool, slack>>

\* the variables of the db module and its store
dbVars == <<call, pool, poolCount, checkedOut, dbUrl, dataStore>>

\* no execution of the current_date tool is under way
IdleDate ==
    [pc |-> "idle", now |-> <<0, 0, 0>>, zone |-> "utc", result |-> <<>>]

\* no Slack event is being handled
IdleSlack ==
    [pc |-> "idle", handler |-> "none",
     channel_type |-> "none", subtype |-> "none", userText |-> <<>>,
     streaming |-> FALSE, currentMessageTs |-> 0, deltas |-> 0,
     toolsExecuted |-> 0, err |-> <<>>,
     api |-> <<>>, logs |-> <<>>, threw |-> FALSE]

\* max of the Pool options
PoolMax == 5

Connections == 1..PoolMax

\* the values a caller binds; they differ from every limit and offset
ParamValue(i) == 9000 + i

ParamLists == { [i \in 1..n |-> ParamValue(i)] : n \in 0..MaxParams }

\* the texts of the fixed statements
BeginText == <<"B","E","G","I","N"," ","R","E","A","D"," ","O","N","L","Y">>

CommitText == <<"C","O","M","M","I","T">>

RollbackText == <<"R","O","L","L","B","A","C","K">>

SetTimeoutHead == <<"S","E","T"," ","L","O","C","A","L"," ","s","t","a","t","e","m","e","n","t","_","t","i","m","e","o","u","t"," ","T","O"," ","'">>

SetTimeoutTail == <<"m","s","'">>

\* `SET LOCAL statement_timeout TO '${...}ms'`
SetTimeoutText(timeoutMs) ==
    SetTimeoutHead \o NumToStr(ClampTimeout(timeoutMs)) \o SetTimeoutTail

\* the two introspection statements of getSchema, named by their catalog view
ColumnsText == <<"i","n","f","o","r","m","a","t","i","o","n","_","s","c","h","e","m","a",".","c","o","l","u","m","n","s">>

IndexesText == <<"p","g","_","i","n","d","e","x","e","s">>

\* the summary text getSchema returns, cut down to its two table headings
KNOWN_SCHEMA_SUMMARY ==
    <<"1",")"," ","f","i","e","l","d","_","c","h","a","n","g","e","s"," ","(","a","p","p","e","n","d","-","o","n","l","y",")"," ","2",")"," ","c","u","r","r","e","n","t","_","f","i","e","l","d","_","v","a","l","u","e","s"," ","(","c","u","r","r","e","n","t"," ","s","n","a","p","s","h","o","t",")">>

\* a caller that is in no call
IdleCall ==
    [op |-> "none", pc |-> "idle", supplied |-> {},
     sql |-> <<>>, params |-> <<>>, limit |-> 0, offset |-> 0, timeoutMs |-> 0,
     safeSql |-> <<>>, clampedLimit |-> 0, clampedOffset |-> 0,
     client |-> 0, res |-> <<>>, res2 |-> <<>>, e |-> "none",
     outcome |-> "none", result |-> <<>>, log |-> <<>>]

\* client.query(text) or client.query({text, values}) as the client sees it
QueryEvent(c, text, values, ok) ==
    [what |-> "query", conn |-> c, text |-> text, values |-> values, ok |-> ok]

\* client.release() as the client sees it
ReleaseEvent(c) ==
    [what |-> "release", conn |-> c, text |-> <<>>, values |-> <<>>, ok |-> TRUE]

\* what the store answers to a catalog query that succeeds
StoreResults == { [rowCount |-> n, rows |-> [i \in 1..n |-> i]] : n \in 0..MaxRows }

\* the number a statement text ends with
TrailingNumber(text) ==
    LET NumberAtEnd(t) ==
            LET starts == { i \in 1..Len(t) :
                              \A k \in i..Len(t) : IsDigit(t[k]) }
            IN  IF starts = {} THEN 0
                ELSE Number(SubSeq(t, CHOOSE i \in starts : \A j \in starts : i <= j,
                                   Len(t)))
    IN  CHOOSE n \in { NumberAtEnd(t) : t \in {text} } : TRUE

\* the text without the number it ends with
WithoutTrailingNumber(text) ==
    SubSeq(text, 1, Len(text) - Len(NumToStr(TrailingNumber(text))))

\* the placeholder of the outer OFFSET clause of a wrapped statement
OffsetPlaceholder(text) == TrailingNumber(text)

\* the placeholder of the outer LIMIT clause of a wrapped statement
LimitPlaceholder(text) ==
    LET beforeOffset == WithoutTrailingNumber(text)
    IN  TrailingNumber(SubSeq(beforeOffset, 1, Len(beforeOffset) - Len(WrapOffset)))

\* the store can run the statement: every placeholder it names has a value
Bound(text, values) ==
    \A i \in PlaceholderIndices(text) : i \in 1..Len(values)

\* what a store that honours LIMIT and OFFSET answers to a wrapped statement:
\* the rows of the inner query after the first OFFSET, at most LIMIT of them
StoreAnswer(text, values) ==
    LET limit == values[LimitPlaceholder(text)]
        offset == values[OffsetPlaceholder(text)]
        n == Max2(0, Min2(limit, dataStore - offset))
    IN  [rowCount |-> n, rows |-> [i \in 1..n |-> offset + i]]

\* a pool constructed for every call that finds DATABASE_URL
getPoolPerCall(p, url) ==
    IF ~url
    THEN [err |-> "config", pool |-> p, created |-> 0]
    ELSE [err |-> "none", pool |-> "pool", created |-> 1]

\* the pool constructed without a look at DATABASE_URL
getPoolUnchecked(p, url) ==
    IF p = "null"
    THEN [err |-> "none", pool |-> "pool", created |-> 1]
    ELSE [err |-> "none", pool |-> p, created |-> 0]

\* getPool: the error it throws, or the pool it returns
getPool(p, url) ==
    IF p = "null"
    THEN IF ~url
         THEN [err |-> "config", pool |-> p, created |-> 0]
         ELSE [err |-> "none", pool |-> "pool", created |-> 1]
    ELSE [err |-> "none", pool |-> p, created |-> 0]

\* a pool handing out its first connection, checked out or not
FirstConnection == CHOOSE c \in Connections : \A d \in Connections : c <= d

\* pool.connect(): the pool hands out a connection that is not checked out
FreeConnection == CHOOSE c \in Connections \ checkedOut :
                      \A d \in Connections \ checkedOut : c <= d

\* the error connect() rejects with: the pool's acquisition timeout
\* (connectionTimeoutMillis) when no connection is free, else the failure to
\* open a connection
ConnectError ==
    IF Connections \ checkedOut = {} THEN "exhausted" ELSE "connect"

\* the argument's field, with no default for an argument left out
ArgOrZero(args, field, default) ==
    IF field \in DOMAIN args THEN args[field] ELSE 0

\* the argument's field, or the default of the destructuring pattern
ArgOr(args, field, default) ==
    IF field \in DOMAIN args THEN args[field] ELSE default

\* a throw that leaves the function without the finally block
ThrownUnreleased(c, e) == [c EXCEPT !.pc = "done", !.outcome = e]

\* the catch block's throw e, after the finally block's client.release()
Thrown(c, e) ==
    [c EXCEPT !.pc = "done", !.outcome = e,
              !.log = Append(@, ReleaseEvent(c.client))]

\* a return of the try block, after the finally block's client.release()
Returned(c, value) ==
    [c EXCEPT !.pc = "done", !.outcome = "ok", !.result = <<value>>,
              !.res = <<>>, !.res2 = <<>>,
              !.log = Append(@, ReleaseEvent(c.client))]

\* a statement failed inside the try block: control is in the catch block,
\* where the constants declared in the try block are out of scope
Caught(c, text, values, e) ==
    [c EXCEPT !.pc = "rollback", !.e = e, !.res = <<>>, !.res2 = <<>>,
              !.log = Append(@, QueryEvent(c.client, text, values, FALSE))]

\* a statement succeeded: control goes on in the try block
Answered(c, text, values, pc) ==
    [c EXCEPT !.pc = pc,
              !.log = Append(@, QueryEvent(c.client, text, values, TRUE))]

\* ------------------------------------------------------------------------
\* runQuery

\* runQuery asking for the connection whatever ensureSelectOnly found
RunQueryCallConnectFirst(p, args) ==
    /\ call[p].pc = "idle"
    /\ LET c == [IdleCall EXCEPT
                    !.op = "runQuery",
                    !.supplied = DOMAIN args,
                    !.sql = args.sql,
                    !.params = ArgOr(args, "params", <<>>),
                    !.limit = ArgOr(args, "limit", LimitDefault),
                    !.offset = ArgOr(args, "offset", OffsetDefault),
                    !.timeoutMs = ArgOr(args, "timeoutMs", TimeoutDefault)]
           g == getPool(pool, dbUrl)
       IN  IF g.err # "none"
           THEN /\ call' = [call EXCEPT ![p] =
                               [c EXCEPT !.pc = "done", !.outcome = g.err]]
                /\ UNCHANGED <<pool, poolCount>>
           ELSE /\ call' = [call EXCEPT ![p] =
                               [c EXCEPT !.pc = "connect",
                                         !.safeSql = RemoveTrailingSemi(Trim(args.sql))]]
                /\ pool' = g.pool
                /\ poolCount' = poolCount + g.created
    /\ UNCHANGED <<checkedOut, dbUrl, dataStore, dateTool, slack>>

\* runQuery up to its first await: destructuring, ensureSelectOnly, getPool
RunQueryCall(p, args) ==
    /\ call[p].pc = "idle"
    /\ LET c == [IdleCall EXCEPT
                    !.op = "runQuery",
                    !.supplied = DOMAIN args,
                    !.sql = args.sql,
                    !.params = ArgOr(args, "params", <<>>),
                    !.limit = ArgOr(args, "limit", LimitDefault),
                    !.offset = ArgOr(args, "offset", OffsetDefault),
                    !.timeoutMs = ArgOr(args, "timeoutMs", TimeoutDefault)]
           v == ensureSelectOnly(args.sql)
           g == getPool(pool, dbUrl)
       IN  IF v.err # "none"
           THEN /\ call' = [call EXCEPT ![p] =
                               [c EXCEPT !.pc = "done", !.outcome = v.err]]
                /\ UNCHANGED <<pool, poolCount>>
           ELSE IF g.err # "none"
           THEN /\ call' = [call EXCEPT ![p] =
                               [c EXCEPT !.pc = "done", !.outcome = g.err,
                                         !.safeSql = v.safeSql]]
                /\ UNCHANGED <<pool, poolCount>>
           ELSE /\ call' = [call EXCEPT ![p] =
                               [c EXCEPT !.pc = "connect", !.safeSql = v.safeSql]]
                /\ pool' = g.pool
                /\ poolCount' = poolCount + g.created
    /\ UNCHANGED <<checkedOut, dbUrl, dataStore, dateTool, slack>>

\* the offset moved by the number of the connection the call was handed
RunQueryConnectCounting(p) ==
    /\ call[p].op = "runQuery"
    /\ call[p].pc = "connect"
    /\ Connections \ checkedOut # {}
    /\ checkedOut' = checkedOut \cup {FreeConnection}
    /\ call' = [call EXCEPT ![p] =
                   [@ EXCEPT !.pc = "begin",
                             !.client = FreeConnection,
                             !.clampedLimit = ClampLimit(call[p].limit),
                             !.clampedOffset = ClampOffset(call[p].offset)
                                                  + FreeConnection - 1]]
    /\ UNCHANGED <<pool, poolCount, dbUrl, dataStore, dateTool, slack>>

\* connect() resolves: the client is checked out, the clamps are computed
RunQueryConnect(p) ==
    /\ call[p].op = "runQuery"
    /\ call[p].pc = "connect"
    /\ Connections \ checkedOut # {}
    /\ checkedOut' = checkedOut \cup {FreeConnection}
    /\ call' = [call EXCEPT ![p] =
                   [@ EXCEPT !.pc = "begin",
                             !.client = FreeConnection,
                             !.clampedLimit = ClampLimit(call[p].limit),
                             !.clampedOffset = ClampOffset(call[p].offset)]]
    /\ UNCHANGED <<pool, poolCount, dbUrl, dataStore, dateTool, slack>>

\* connect() awaited inside the try block: its rejection is caught
RunQueryConnectFailCaught(p) ==
    /\ call[p].op = "runQuery"
    /\ call[p].pc = "connect"
    /\ call' = [call EXCEPT ![p] = [@ EXCEPT !.pc = "rollback", !.e = ConnectError]]
    /\ UNCHANGED <<pool, poolCount, checkedOut, dbUrl, dataStore, dateTool, slack>>

\* connect() rejecting with the cached pool thrown away
RunQueryConnectFailResetting(p) ==
    /\ call[p].op = "runQuery"
    /\ call[p].pc = "connect"
    /\ call' = [call EXCEPT ![p] = [@ EXCEPT !.pc = "done", !.outcome = ConnectError]]
    /\ pool' = "null"
    /\ UNCHANGED <<poolCount, checkedOut, dbUrl, dataStore, dateTool, slack>>

\* connect() rejects: runQuery throws outside its try block
RunQueryConnectFail(p) ==
    /\ call[p].op = "runQuery"
    /\ call[p].pc = "connect"
    /\ call' = [call EXCEPT ![p] = [@ EXCEPT !.pc = "done", !.outcome = ConnectError]]
    /\ UNCHANGED <<pool, poolCount, checkedOut, dbUrl, dataStore, dateTool, slack>>

\* await client.query("BEGIN READ ONLY")
RunQueryBegin(p) ==
    /\ call[p].op = "runQuery"
    /\ call[p].pc = "begin"
    /\ \E ok \in BOOLEAN :
          call' = [call EXCEPT ![p] =
                      IF ok THEN Answered(@, BeginText, <<>>, "timeout")
                            ELSE Caught(@, BeginText, <<>>, "BEGIN")]
    /\ UNCHANGED <<pool, poolCount, checkedOut, dbUrl, dataStore, dateTool, slack>>

\* await client.query(`SET LOCAL statement_timeout TO ...`)
RunQuerySetTimeout(p) ==
    /\ call[p].op = "runQuery"
    /\ call[p].pc = "timeout"
    /\ \E ok \in BOOLEAN :
          call' = [call EXCEPT ![p] =
                      IF ok THEN Answered(@, SetTimeoutText(@.timeoutMs), <<>>, "query")
                            ELSE Caught(@, SetTimeoutText(@.timeoutMs), <<>>, "SET")]
    /\ UNCHANGED <<pool, poolCount, checkedOut, dbUrl, dataStore, dateTool, slack>>

\* the wrapped query returning its rows to the caller before COMMIT
RunQueryExecReturning(p) ==
    /\ call[p].op = "runQuery"
    /\ call[p].pc = "query"
    /\ LET c == call[p]
           wrapped == Wrapped(c.safeSql, LimitIdx(c.safeSql, c.params),
                              OffsetIdx(c.safeSql, c.params))
           values == Values(c.params, c.clampedLimit, c.clampedOffset)
           res == StoreAnswer(wrapped, values)
       IN  \/ /\ Bound(wrapped, values)
              /\ call' = [call EXCEPT ![p] =
                    Returned(Answered(c, wrapped, values, "return"),
                             [rowCount |-> res.rowCount, rows |-> res.rows,
                              appliedLimit |-> c.clampedLimit,
                              appliedOffset |-> c.clampedOffset])]
              /\ checkedOut' = checkedOut \ {c.client}
           \/ /\ call' = [call EXCEPT ![p] = Caught(c, wrapped, values, "QUERY")]
              /\ UNCHANGED checkedOut
    /\ UNCHANGED <<pool, poolCount, dbUrl, dataStore, dateTool, slack>>

\* the placeholder scan, the wrapping and await client.query({text, values})
RunQueryExec(p) ==
    /\ call[p].op = "runQuery"
    /\ call[p].pc = "query"
    /\ \E c \in {call[p]} :
       \E wrapped \in {Wrapped(c.safeSql, LimitIdx(c.safeSql, c.params),
                                OffsetIdx(c.safeSql, c.params))} :
       \E values \in {Values(c.params, c.clampedLimit, c.clampedOffset)} :
           \/ /\ Bound(wrapped, values)
              /\ \E answer \in {StoreAnswer(wrapped, values)} :
                    call' = [call EXCEPT ![p] =
                        [Answered(c, wrapped, values, "commit")
                            EXCEPT !.res = <<answer>>]]
           \/ call' = [call EXCEPT ![p] = Caught(c, wrapped, values, "QUERY")]
    /\ UNCHANGED <<pool, poolCount, checkedOut, dbUrl, dataStore, dateTool, slack>>

\* COMMIT sent again for as long as it fails
RunQueryCommitRetrying(p) ==
    /\ call[p].op = "runQuery"
    /\ call[p].pc = "commit"
    /\ LET c == call[p]
           res == c.res[1]
       IN  \/ /\ call' = [call EXCEPT ![p] =
                    Returned(Answered(c, CommitText, <<>>, "return"),
                             [rowCount |-> res.rowCount, rows |-> res.rows,
                              appliedLimit |-> c.clampedLimit,
                              appliedOffset |-> c.clampedOffset])]
              /\ checkedOut' = checkedOut \ {c.client}
           \/ /\ call' = [call EXCEPT ![p] =
                    [c EXCEPT !.e = IF c.e = "COMMIT" THEN "" ELSE "COMMIT"]]
              /\ UNCHANGED checkedOut
    /\ UNCHANGED <<pool, poolCount, dbUrl, dataStore, dateTool, slack>>

\* await client.query("COMMIT"), then the return and the finally block
RunQueryCommit(p) ==
    /\ call[p].op = "runQuery"
    /\ call[p].pc = "commit"
    /\ LET c == call[p]
           res == c.res[1]
       IN  \/ /\ call' = [call EXCEPT ![p] =
                    Returned(Answered(c, CommitText, <<>>, "return"),
                             [rowCount |-> res.rowCount, rows |-> res.rows,
                              appliedLimit |-> c.clampedLimit,
                              appliedOffset |-> c.clampedOffset])]
              /\ checkedOut' = checkedOut \ {c.client}
           \/ /\ call' = [call EXCEPT ![p] = Caught(c, CommitText, <<>>, "COMMIT")]
              /\ UNCHANGED checkedOut
    /\ UNCHANGED <<pool, poolCount, dbUrl, dataStore, dateTool, slack>>

\* a catch block that lets the error of a failed ROLLBACK replace e
RunQueryRollbackMasking(p) ==
    /\ call[p].op = "runQuery"
    /\ call[p].pc = "rollback"
    /\ \E ok \in BOOLEAN :
          call' = [call EXCEPT ![p] =
                      Thrown([@ EXCEPT !.log = Append(@,
                                 QueryEvent(call[p].client, RollbackText, <<>>, ok))],
                             IF ok THEN @.e ELSE "ROLLBACK")]
    /\ checkedOut' = checkedOut \ {call[p].client}
    /\ UNCHANGED <<pool, poolCount, dbUrl, dataStore, dateTool, slack>>

\* the catch block: ROLLBACK with its error swallowed, throw e, then finally
RunQueryRollback(p) ==
    /\ call[p].op = "runQuery"
    /\ call[p].pc = "rollback"
    /\ \E ok \in BOOLEAN :
          call' = [call EXCEPT ![p] =
                      Thrown([@ EXCEPT !.log = Append(@,
                                 QueryEvent(call[p].client, RollbackText, <<>>, ok))],
                             @.e)]
    /\ checkedOut' = checkedOut \ {call[p].client}
    /\ UNCHANGED <<pool, poolCount, dbUrl, dataStore, dateTool, slack>>

\* the caller has the result or the error and may call again
Return(p) ==
    /\ call[p].pc = "done"
    /\ call' = [call EXCEPT ![p] = IdleCall]
    /\ UNCHANGED <<pool, poolCount, checkedOut, dbUrl, dataStore, dateTool, slack>>

\* ------------------------------------------------------------------------
\* getSchema

\* getSchema up to its first await: getPool
GetSchemaCall(p) ==
    /\ call[p].pc = "idle"
    /\ LET c == [IdleCall EXCEPT !.op = "getSchema"]
           g == getPool(pool, dbUrl)
       IN  IF g.err # "none"
           THEN /\ call' = [call EXCEPT ![p] =
                               [c EXCEPT !.pc = "done", !.outcome = g.err]]
                /\ UNCHANGED <<pool, poolCount>>
           ELSE /\ call' = [call EXCEPT ![p] = [c EXCEPT !.pc = "connect"]]
                /\ pool' = g.pool
                /\ poolCount' = poolCount + g.created
    /\ UNCHANGED <<checkedOut, dbUrl, dataStore, dateTool, slack>>

\* connect() resolves: the client is checked out
GetSchemaConnect(p) ==
    /\ call[p].op = "getSchema"
    /\ call[p].pc = "connect"
    /\ Connections \ checkedOut # {}
    /\ checkedOut' = checkedOut \cup {FreeConnection}
    /\ call' = [call EXCEPT ![p] =
                   [@ EXCEPT !.pc = "begin", !.client = FreeConnection]]
    /\ UNCHANGED <<pool, poolCount, dbUrl, dataStore, dateTool, slack>>

\* connect() rejects: getSchema throws outside its try block
GetSchemaConnectFail(p) ==
    /\ call[p].op = "getSchema"
    /\ call[p].pc = "connect"
    /\ call' = [call EXCEPT ![p] = [@ EXCEPT !.pc = "done", !.outcome = ConnectError]]
    /\ UNCHANGED <<pool, poolCount, checkedOut, dbUrl, dataStore, dateTool, slack>>

\* await client.query("BEGIN READ ONLY")
GetSchemaBegin(p) ==
    /\ call[p].op = "getSchema"
    /\ call[p].pc = "begin"
    /\ \E ok \in BOOLEAN :
          call' = [call EXCEPT ![p] =
                      IF ok THEN Answered(@, BeginText, <<>>, "columns")
                            ELSE Caught(@, BeginText, <<>>, "BEGIN")]
    /\ UNCHANGED <<pool, poolCount, checkedOut, dbUrl, dataStore, dateTool, slack>>

\* const colRes = await client.query(<columns of the two tables>)
GetSchemaColumns(p) ==
    /\ call[p].op = "getSchema"
    /\ call[p].pc = "columns"
    /\ \/ \E res \in StoreResults :
             call' = [call EXCEPT ![p] =
                         [Answered(@, ColumnsText, <<>>, "indexes") EXCEPT !.res = <<res>>]]
       \/ call' = [call EXCEPT ![p] = Caught(@, ColumnsText, <<>>, "COLUMNS")]
    /\ UNCHANGED <<pool, poolCount, checkedOut, dbUrl, dataStore, dateTool, slack>>

\* const idxRes = await client.query(<indexes of the two tables>)
GetSchemaIndexes(p) ==
    /\ call[p].op = "getSchema"
    /\ call[p].pc = "indexes"
    /\ \/ \E res \in StoreResults :
             call' = [call EXCEPT ![p] =
                         [Answered(@, IndexesText, <<>>, "commit") EXCEPT !.res2 = <<res>>]]
       \/ call' = [call EXCEPT ![p] = Caught(@, IndexesText, <<>>, "INDEXES")]
    /\ UNCHANGED <<pool, poolCount, checkedOut, dbUrl, dataStore, dateTool, slack>>

\* getSchema with a summary written from the columns it found
GetSchemaCommitDescribing(p) ==
    /\ call[p].op = "getSchema"
    /\ call[p].pc = "commit"
    /\ LET c == call[p]
       IN  \/ /\ call' = [call EXCEPT ![p] =
                    Returned(Answered(c, CommitText, <<>>, "return"),
                             [columns |-> c.res[1].rows, indexes |-> c.res2[1].rows,
                              summary |-> IF c.res[1].rows = <<>> THEN <<>>
                                          ELSE KNOWN_SCHEMA_SUMMARY])]
              /\ checkedOut' = checkedOut \ {c.client}
           \/ /\ call' = [call EXCEPT ![p] = Caught(c, CommitText, <<>>, "COMMIT")]
              /\ UNCHANGED checkedOut
    /\ UNCHANGED <<pool, poolCount, dbUrl, dataStore, dateTool, slack>>

\* await client.query("COMMIT"), then the return and the finally block
GetSchemaCommit(p) ==
    /\ call[p].op = "getSchema"
    /\ call[p].pc = "commit"
    /\ LET c == call[p]
       IN  \/ /\ call' = [call EXCEPT ![p] =
                    Returned(Answered(c, CommitText, <<>>, "return"),
                             [columns |-> c.res[1].rows, indexes |-> c.res2[1].rows,
                              summary |-> KNOWN_SCHEMA_SUMMARY])]
              /\ checkedOut' = checkedOut \ {c.client}
           \/ /\ call' = [call EXCEPT ![p] = Caught(c, CommitText, <<>>, "COMMIT")]
              /\ UNCHANGED checkedOut
    /\ UNCHANGED <<pool, poolCount, dbUrl, dataStore, dateTool, slack>>

\* the catch block throwing e without sending ROLLBACK
GetSchemaRollbackSkipped(p) ==
    /\ call[p].op = "getSchema"
    /\ call[p].pc = "rollback"
    /\ call' = [call EXCEPT ![p] = Thrown(@, @.e)]
    /\ checkedOut' = checkedOut \ {call[p].client}
    /\ UNCHANGED <<pool, poolCount, dbUrl, dataStore, dateTool, slack>>

\* the catch block: ROLLBACK with its error swallowed, throw e, then finally
GetSchemaRollback(p) ==
    /\ call[p].op = "getSchema"
    /\ call[p].pc = "rollback"
    /\ \E ok \in BOOLEAN :
          call' = [call EXCEPT ![p] =
                      Thrown([@ EXCEPT !.log = Append(@,
                                 QueryEvent(call[p].client, RollbackText, <<>>, ok))],
                             @.e)]
    /\ checkedOut' = checkedOut \ {call[p].client}
    /\ UNCHANGED <<pool, poolCount, dbUrl, dataStore, dateTool, slack>>

\* ------------------------------------------------------------------------
\* Inputs

Flatten(fs) ==
    LET RECURSIVE F(_)
        F(k) == IF k = 0 THEN <<>> ELSE F(k - 1) \o fs[k]
    IN  F(Len(fs))

\* every text made of at most n of the fragments
TextsOf(fragments, n) ==
    { Flatten(fs) : fs \in UNION { [1..k -> fragments] : k \in 0..n } }

\* fragments of the SQL inputs of the validation specification
SqlFragments ==
    { <<"s","e","l","e","c","t"," ">>,
      <<"W","I","T","H"," ">>,
      <<" ">>,
      <<";">>,
      <<"u","p","d","a","t","e">>,
      <<"D","r","o","p">>,
      <<"x","_">>,
      <<"'">> }

SqlInputs == TextsOf(SqlFragments, MaxFrags)

\* fragments of the SQL inputs of the argument specification
ArgFragments ==
    { <<"s","e","l","e","c","t"," ">>,
      <<"$","1">>,
      <<"$","2">>,
      <<"0">>,
      <<";">> }

ArgSqlInputs == TextsOf(ArgFragments, MaxArgFrags)

LimitInputs == {-1, 0, 1, 2000, 5000}

OffsetInputs == {-10, 0, 1}

\* the arguments of a call with every optional argument supplied
FullArgs ==
    { [sql |-> s, params |-> ps, limit |-> l, offset |-> o] :
        s \in ArgSqlInputs, ps \in ParamLists, l \in LimitInputs, o \in OffsetInputs }

\* 'insert into t values (1)', the statement of the test "rejects non-SELECT
\* statements"
InsertExample ==
    <<"i","n","s","e","r","t"," ","i","n","t","o"," ","t"," ",
      "v","a","l","u","e","s"," ","(","1",")">>

\* 'select 1; select 2', the statement of the test "rejects multiple
\* statements"
TwoSelectsExample ==
    <<"s","e","l","e","c","t"," ","1",";"," ","s","e","l","e","c","t"," ","2">>

SqlExamples == {InsertExample, TwoSelectsExample}

\* the arguments of a call that supplies the SQL text alone
SqlOnlyArgs == { [sql |-> s] : s \in SqlInputs \cup SqlExamples }

\* the records of recs, and each of them with the field set to a value of S
Opt(recs, field, S) == recs \cup { r @@ (field :> v) : r \in recs, v \in S }

\* SQL inputs of the options specification
OptSqlInputs ==
    { <<"s","e","l","e","c","t"," ","1">>, <<"s","e","l","e","c","t"," ","$","1">> }

TimeoutInputs == {0, 999, 1000, 30000, 60000, 60001, 120000}

\* the arguments of a call that supplies any of the optional arguments
OptArgs ==
    Opt(Opt(Opt(Opt({ [sql |-> s] : s \in OptSqlInputs },
                    "params", {<<ParamValue(1)>>}),
                "limit", {0, 1, 5000}),
            "offset", {1}),
        "timeoutMs", TimeoutInputs)

\* the arguments of the calls of the exhaustion specification
ExhaustArgs == { [sql |-> <<"s","e","l","e","c","t"," ","1">>] }

\* SQL inputs of the pool specification: one accepted, one rejected
PoolSqlInputs ==
    { <<"s","e","l","e","c","t"," ","1">>,
      <<"s","e","l","e","c","t"," ","$","1">>,
      <<"d","r","o","p">> }

\* the arguments of the calls of the pool specification
PoolArgs == { [sql |-> x] : x \in PoolSqlInputs }

\* ------------------------------------------------------------------------
\* Specifications

\* the steps of runQuery after the call, for the callers of a specification
RunQuerySteps(callers) ==
    \/ \E p \in callers : RunQueryConnect(p)
    \/ \E p \in callers : RunQueryConnectFail(p)
    \/ \E p \in callers : RunQueryBegin(p)
    \/ \E p \in callers : RunQuerySetTimeout(p)
    \/ \E p \in callers : RunQueryExec(p)
    \/ \E p \in callers : RunQueryCommit(p)
    \/ \E p \in callers : RunQueryRollback(p)
    \/ \E p \in callers : Return(p)

\* the steps of getSchema, for the callers of a specification
GetSchemaSteps(callers) ==
    \/ \E p \in callers : GetSchemaCall(p)
    \/ \E p \in callers : GetSchemaConnect(p)
    \/ \E p \in callers : GetSchemaConnectFail(p)
    \/ \E p \in callers : GetSchemaBegin(p)
    \/ \E p \in callers : GetSchemaColumns(p)
    \/ \E p \in callers : GetSchemaIndexes(p)
    \/ \E p \in callers : GetSchemaCommit(p)
    \/ \E p \in callers : GetSchemaRollback(p)

\* a caller that is in no call calls runQuery with one of the arguments
RunQueryCalls(callers, arguments) ==
    \E p \in callers :
        /\ call[p].pc = "idle"
        /\ \E args \in arguments : RunQueryCall(p, args)

InitWith(callers, urls, stores) ==
    /\ call = [p \in callers |-> IdleCall]
    /\ pool = "null"
    /\ poolCount = 0
    /\ checkedOut = {}
    /\ dbUrl \in urls
    /\ dataStore \in stores
    /\ dateTool = IdleDate
    /\ slack = IdleSlack

\* two tool executions that call runQuery and getSchema concurrently
Callers == {"c1", "c2"}

\* a single tool execution
OneCaller == {"c1"}

Init == InitWith(Callers, BOOLEAN, 0..MaxRows)

Next ==
    \/ RunQueryCalls(Callers, PoolArgs)
    \/ RunQuerySteps(Callers)
    \/ GetSchemaSteps(Callers)

Spec == Init /\ [][Next]_vars

\* one caller of runQuery, over the SQL inputs
InitSql == InitWith(OneCaller, {TRUE}, {MaxRows})

NextSql ==
    \/ RunQueryCalls(OneCaller, SqlOnlyArgs)
    \/ RunQuerySteps(OneCaller)

SpecSql == InitSql /\ [][NextSql]_vars

\* one caller of runQuery, over params, limit and offset
InitArgs == InitWith(OneCaller, {TRUE}, {MaxRows})

NextArgs ==
    \/ RunQueryCalls(OneCaller, FullArgs)
    \/ RunQuerySteps(OneCaller)

SpecArgs == InitArgs /\ [][NextArgs]_vars

\* one more caller than the pool has connections
ManyCallers == {"c1", "c2", "c3", "c4", "c5", "c6"}

\* six callers of runQuery and a store that answers the statements of the
\* first caller only: the calls of the others stay in their BEGIN
InitExhaust == InitWith(ManyCallers, {TRUE}, {MaxRows})

NextExhaust ==
    \/ RunQueryCalls(ManyCallers, ExhaustArgs)
    \/ \E p \in ManyCallers : RunQueryConnect(p)
    \/ \E p \in ManyCallers : RunQueryConnectFail(p)
    \/ \E p \in OneCaller : RunQueryBegin(p)
    \/ \E p \in OneCaller : RunQuerySetTimeout(p)
    \/ \E p \in OneCaller : RunQueryExec(p)
    \/ \E p \in OneCaller : RunQueryCommit(p)
    \/ \E p \in OneCaller : RunQueryRollback(p)
    \/ \E p \in ManyCallers : Return(p)

SpecExhaust == InitExhaust /\ [][NextExhaust]_vars

\* one caller of runQuery, over which optional arguments are supplied
InitOpts == InitWith(OneCaller, {TRUE}, 0..MaxRows)

NextOpts ==
    \/ RunQueryCalls(OneCaller, OptArgs)
    \/ RunQuerySteps(OneCaller)

SpecOpts == InitOpts /\ [][NextOpts]_vars

\* ------------------------------------------------------------------------
\* Properties of the validation (specification SpecSql)

\* the callers that are in a runQuery call or have its outcome
InRunQuery == { p \in DOMAIN call : call[p].op = "runQuery" }

\* the call was rejected by the validation and nothing reached the pool or
\* the store
RejectedUnsent(c) ==
    /\ c.pc = "done"
    /\ c.outcome \in ValidationErrors
    /\ c.log = <<>>
    /\ c.client = 0
    /\ c.result = <<>>

\* the text contains the separator
HasSemi(s) == \E i \in DOMAIN s : s[i] = ";"

\* the write and DDL verbs
Verbs ==
    { <<"i","n","s","e","r","t">>,
      <<"u","p","d","a","t","e">>,
      <<"d","e","l","e","t","e">>,
      <<"a","l","t","e","r">>,
      <<"d","r","o","p">>,
      <<"c","r","e","a","t","e">>,
      <<"t","r","u","n","c","a","t","e">>,
      <<"g","r","a","n","t">>,
      <<"r","e","v","o","k","e">>,
      <<"v","a","c","u","u","m">>,
      <<"a","n","a","l","y","z","e">>,
      <<"r","e","i","n","d","e","x">> }

\* letters compared without regard to case
SameLetters(a, b) ==
    /\ Len(a) = Len(b)
    /\ \A i \in DOMAIN a : LowerChar(a[i]) = LowerChar(b[i])

\* w occurs in s at position i as a word of its own, in any letter case
WholeWordAt(s, w, i) ==
    /\ i + Len(w) - 1 <= Len(s)
    /\ SameLetters(SubSeq(s, i, i + Len(w) - 1), w)
    /\ (i = 1 \/ ~IsWordChar(s[i - 1]))
    /\ (i + Len(w) - 1 = Len(s) \/ ~IsWordChar(s[i + Len(w)]))

\* s contains a verb as a whole word
HasVerbWord(s) == \E w \in Verbs : \E i \in DOMAIN s : WholeWordAt(s, w, i)

\* s, trimmed and without one trailing separator, begins with SELECT or WITH
BeginsWithSelectOrWith(s) ==
    LET body == Trim(RemoveTrailingSemi(Trim(s)))
    IN  \E h \in { <<"S","E","L","E","C","T">>, <<"W","I","T","H">> } :
            /\ Len(h) <= Len(body)
            /\ SameLetters(SubSeq(body, 1, Len(h)), h)

\* C1: a runQuery call whose sql fails the validation has failed with the
\* validation's error, holds no connection, and has sent the store nothing,
\* not even BEGIN
C1_InvalidSqlNeverReachesStore ==
    \A p \in InRunQuery :
        ensureSelectOnly(call[p].sql).err # "none"
            => /\ RejectedUnsent(call[p])
               /\ call[p].outcome = ensureSelectOnly(call[p].sql).err
               /\ checkedOut = {}

C1_Witness ==
    \E p \in InRunQuery :
        /\ call[p].pc = "done"
        /\ call[p].outcome = "single"
        /\ call[p].log = <<>>
        /\ pool = "pool"

\* C2: every sql that still contains a ';' after trimming and removing one
\* trailing ';' is rejected, so that no statement sent to the store contains
\* the separator ';'
C2_NoSeparatorReachesStore ==
    \A p \in InRunQuery :
        \A i \in DOMAIN call[p].log : ~HasSemi(call[p].log[i].text)

\* C3: a runQuery call whose sql contains a write or DDL verb as a whole
\* word, in any letter case, anywhere in the text, fails with a validation
\* error and nothing is executed
C3_VerbWordRejected ==
    \A p \in InRunQuery :
        HasVerbWord(call[p].sql) => RejectedUnsent(call[p])

C3_Witness ==
    \E p \in InRunQuery :
        /\ call[p].pc = "done"
        /\ call[p].outcome = "forbidden"
        /\ HasVerbWord(call[p].sql)
        /\ call[p].sql # ToLowerCase(call[p].sql)
        /\ \E i \in DOMAIN call[p].sql : call[p].sql[i] = "'"

\* C4: a statement in which a verb occurs only inside a longer identifier,
\* as its prefix or as its suffix, is not rejected by the forbidden-keyword
\* rule
C4_VerbInsideIdentifierAccepted ==
    \A p \in InRunQuery :
        ~HasVerbWord(call[p].sql) => call[p].outcome # "forbidden"

\* C5: a runQuery call whose sql, trimmed and without one trailing ';', does
\* not begin with SELECT or WITH in any letter case is rejected and nothing
\* is executed, the empty and the blank text included; one that begins with
\* WITH or with SELECT is never rejected by this rule
C5_HeadRule ==
    \A p \in InRunQuery :
        /\ ~BeginsWithSelectOrWith(call[p].sql) => RejectedUnsent(call[p])
        /\ BeginsWithSelectOrWith(call[p].sql) => call[p].outcome # "select"

C5_Witness ==
    \E p \in InRunQuery :
        /\ call[p].pc = "done"
        /\ call[p].outcome = "select"
        /\ call[p].sql # <<>>
        /\ Trim(call[p].sql) = <<>>

\* ------------------------------------------------------------------------
\* Properties of the arguments and of the transaction (specification SpecArgs)

\* the statements of a call that carry values: the wrapped query
WrappedEvents(c) ==
    { i \in DOMAIN c.log : c.log[i].what = "query" /\ c.log[i].values # <<>> }

\* the call is past connect(): its clamps are computed
Connected(c) == c.client # 0

\* C6: for every limit and offset, the applied limit is
\* min(max(limit, 0), 2000) and the applied offset max(offset, 0), the result
\* reports them, and they are the last two values sent with the statement
C6_ClampingTotal ==
    \A p \in InRunQuery :
        LET c == call[p]
            lim == IF c.limit < 0 THEN 0 ELSE IF c.limit > 2000 THEN 2000 ELSE c.limit
            off == IF c.offset < 0 THEN 0 ELSE c.offset
        IN  Connected(c) =>
              /\ c.clampedLimit = lim /\ lim \in 0..2000
              /\ c.clampedOffset = off /\ off >= 0
              /\ \A i \in WrappedEvents(c) :
                    LET v == c.log[i].values
                    IN  v[Len(v) - 1] = lim /\ v[Len(v)] = off
              /\ c.result # <<>> =>
                    /\ c.result[1].appliedLimit = lim
                    /\ c.result[1].appliedOffset = off

C6_Witness ==
    \E p \in InRunQuery :
        /\ call[p].outcome = "ok"
        /\ call[p].limit = 5000 /\ call[p].result[1].appliedLimit = 2000
        /\ call[p].offset = -10 /\ call[p].result[1].appliedOffset = 0

\* C7: in the statement sent, the caller's params keep positions
\* 1..len(params), the value at the position the LIMIT placeholder names is
\* the clamped limit and the value at the position the OFFSET placeholder
\* names is the clamped offset
C7_PlaceholdersBound ==
    \A p \in InRunQuery :
        LET c == call[p]
        IN  \A i \in WrappedEvents(c) :
              LET v == c.log[i].values
                  l == LimitIdx(c.safeSql, c.params)
                  o == OffsetIdx(c.safeSql, c.params)
              IN  /\ \A k \in DOMAIN c.params : v[k] = c.params[k]
                  /\ l \in DOMAIN v /\ v[l] = c.clampedLimit
                  /\ o \in DOMAIN v /\ v[o] = c.clampedOffset

\* the largest element of a set of numbers, 0 for the empty set
Largest(S) == IF S = {} THEN 0 ELSE CHOOSE x \in S : \A y \in S : y <= x

\* C8: the statement sent is 'select * from ( V ) as t limit $(B+1) offset
\* $(B+2)', V the trimmed input without one trailing ';', B the larger of the
\* highest $n of V and the length of params; both added indices are greater
\* than every index V uses
C8_WrappedStatement ==
    \A p \in InRunQuery :
        LET c == call[p]
            V == RemoveTrailingSemi(Trim(c.sql))
            used == PlaceholderIndices(V)
            B == Largest(used \cup {Len(c.params)})
        IN  \A i \in WrappedEvents(c) :
              /\ c.log[i].text =
                    <<"s","e","l","e","c","t"," ","*"," ","f","r","o","m"," ","("," ">>
                    \o V \o <<" ",")"," ","a","s"," ","t"," ","l","i","m","i","t"," ","$">>
                    \o NumToStr(B + 1) \o <<" ","o","f","f","s","e","t"," ","$">>
                    \o NumToStr(B + 2)
              /\ \A n \in used : n < B + 1

C8_Witness ==
    \E p \in InRunQuery :
        /\ WrappedEvents(call[p]) # {}
        /\ Len(call[p].params) = 1
        /\ MaxInSql(call[p].safeSql) > Len(call[p].params)
        /\ call[p].sql # call[p].safeSql

\* the error a failed statement raises, by the statement's text
ErrorOf(text) ==
    IF text = BeginText THEN "BEGIN"
    ELSE IF text = CommitText THEN "COMMIT"
    ELSE IF StartsWith(text, SetTimeoutHead) THEN "SET"
    ELSE "QUERY"

\* the statements of the try block that failed
FailedInTry(c) ==
    { i \in DOMAIN c.log :
        /\ c.log[i].what = "query"
        /\ ~c.log[i].ok
        /\ c.log[i].text # RollbackText }

\* C9: when BEGIN, the timeout statement, the wrapped query or COMMIT has
\* failed and the call has ended, the next thing sent on that connection was
\* ROLLBACK, the caller has the error of the failed statement, also when the
\* ROLLBACK failed, and has no result
C9_RollbackThenOriginalError ==
    \A p \in InRunQuery :
        LET c == call[p]
        IN  \A i \in FailedInTry(c) :
              c.pc = "done" =>
                /\ i + 1 \in DOMAIN c.log
                /\ c.log[i + 1].what = "query"
                /\ c.log[i + 1].text = RollbackText
                /\ c.log[i + 1].conn = c.log[i].conn
                /\ c.outcome = ErrorOf(c.log[i].text)
                /\ c.result = <<>>

C9_Witness ==
    \E p \in InRunQuery :
        /\ call[p].pc = "done"
        /\ call[p].outcome = "COMMIT"
        /\ \E i \in DOMAIN call[p].log :
              call[p].log[i].text = RollbackText /\ ~call[p].log[i].ok

\* ------------------------------------------------------------------------
\* Properties of the pool (specification Spec)

\* the release() calls of a call
Releases(c) == { i \in DOMAIN c.log : c.log[i].what = "release" }

\* the calls that hold a connection
Holding == { p \in DOMAIN call : call[p].client # 0 /\ call[p].pc # "done" }

\* C10: a call of runQuery or getSchema that acquired a connection releases
\* it exactly once when it ends, by success or by failure, as the last thing
\* it does with it and right after COMMIT succeeded or ROLLBACK was sent;
\* the connections checked out are those of the calls still running, so none
\* is checked out once all calls have ended
C10_ReleasedExactlyOnce ==
    /\ \A p \in DOMAIN call :
          LET c == call[p]
              n == Len(c.log)
          IN  /\ Cardinality(Releases(c)) =
                    IF c.client # 0 /\ c.pc = "done" THEN 1 ELSE 0
              /\ Releases(c) # {} =>
                    /\ Releases(c) = {n}
                    /\ c.log[n].conn = c.client
                    /\ c.log[n - 1].what = "query"
                    /\ \/ c.log[n - 1].text = CommitText /\ c.log[n - 1].ok
                       \/ c.log[n - 1].text = RollbackText
    /\ checkedOut = { call[p].client : p \in Holding }
    /\ Cardinality(checkedOut) = Cardinality(Holding)

C10_Witness ==
    /\ checkedOut = {}
    /\ \E p \in DOMAIN call : call[p].op = "runQuery" /\ call[p].outcome = "QUERY"
    /\ \E p \in DOMAIN call : call[p].op = "getSchema" /\ call[p].outcome = "ok"

\* ------------------------------------------------------------------------
\* Properties of the transaction of runQuery (specification SpecArgs)

\* the statements of the log that are not transaction control
Worked(c) ==
    { i \in DOMAIN c.log :
        /\ c.log[i].what = "query"
        /\ c.log[i].text \notin {BeginText, CommitText, RollbackText} }

\* C11: a call of runQuery that succeeded did exactly this with one
\* connection, in this order and all of it answered: BEGIN READ ONLY, the
\* SET LOCAL statement_timeout statement, the wrapped query with its values,
\* COMMIT, release; a call has a result only when it succeeded; and in every
\* call the timeout statement and the wrapped query are sent only after BEGIN
\* READ ONLY was answered on that connection and before any COMMIT or ROLLBACK
C11_ReadOnlyTransaction ==
    \A p \in InRunQuery :
        LET c == call[p]
        IN  /\ c.outcome = "ok" =>
                /\ Len(c.log) = 5
                /\ \A i \in 1..5 : c.log[i].conn = c.client /\ c.log[i].ok
                /\ \A i \in 1..4 : c.log[i].what = "query"
                /\ c.log[1].text = BeginText
                /\ StartsWith(c.log[2].text, SetTimeoutHead)
                /\ c.log[2].values = <<>>
                /\ StartsWith(c.log[3].text, WrapHead \o c.safeSql)
                /\ c.log[3].values # <<>>
                /\ c.log[4].text = CommitText
                /\ c.log[5].what = "release"
            /\ c.result # <<>> => c.outcome = "ok"
            /\ \A i \in Worked(c) :
                /\ c.log[1].text = BeginText /\ c.log[1].ok
                /\ c.log[i].conn = c.log[1].conn
                /\ \A k \in 2..(i - 1) : k \in Worked(c) /\ c.log[k].ok

C11_Witness ==
    \E p \in InRunQuery :
        /\ call[p].outcome = "ok"
        /\ call[p].sql # call[p].safeSql
        /\ call[p].params # <<>>
        /\ call[p].result[1].rowCount > 0

\* C12: the result of a call of runQuery that succeeded has as many rows as
\* its rowCount says, at most appliedLimit of them, and appliedLimit is at
\* most 2000; the store holds the rows the inner query selects and honours
\* the LIMIT and OFFSET of the statement it is sent
C12_RowCountWithinAppliedLimit ==
    \A p \in InRunQuery :
        call[p].outcome = "ok" =>
            LET r == call[p].result[1]
            IN  /\ r.rowCount = Len(r.rows)
                /\ r.rowCount <= r.appliedLimit
                /\ r.appliedLimit <= 2000

C12_Witness ==
    \E p \in InRunQuery :
        /\ call[p].outcome = "ok"
        /\ call[p].result[1].appliedLimit < dataStore - call[p].result[1].appliedOffset
        /\ call[p].result[1].rowCount = call[p].result[1].appliedLimit
        /\ call[p].limit = 5000 \/ call[p].limit < 1

\* ------------------------------------------------------------------------
\* Properties of the optional arguments (specification SpecOpts)

\* the timeout statements of the log
TimeoutEvents(c) ==
    { i \in DOMAIN c.log :
        c.log[i].what = "query" /\ StartsWith(c.log[i].text, SetTimeoutHead) }

\* the milliseconds a timeout statement names
TimeoutSet(text) ==
    Number(SubSeq(text, Len(SetTimeoutHead) + 1, Len(text) - Len(SetTimeoutTail)))

\* C13: the timeout statement sent in the transaction names
\* min(max(timeoutMs, 1000), 60000) milliseconds, a value of 1000..60000,
\* for the timeoutMs supplied and 15000 when none is supplied
C13_StatementTimeout ==
    \A p \in InRunQuery :
        LET c == call[p]
            t == c.timeoutMs
            raised == IF t > 1000 THEN t ELSE 1000
            expected == IF "timeoutMs" \notin c.supplied THEN 15000
                        ELSE IF raised < 60000 THEN raised ELSE 60000
        IN  /\ c.pc \in {"query", "commit"} => TimeoutEvents(c) # {}
            /\ \A i \in TimeoutEvents(c) :
                  /\ EndsWith(c.log[i].text, SetTimeoutTail)
                  /\ \A k \in (Len(SetTimeoutHead) + 1)..
                                (Len(c.log[i].text) - Len(SetTimeoutTail)) :
                        IsDigit(c.log[i].text[k])
                  /\ TimeoutSet(c.log[i].text) = expected
                  /\ expected \in 1000..60000

C13_Witness ==
    \E p \in InRunQuery :
        /\ call[p].outcome = "ok"
        /\ "timeoutMs" \in call[p].supplied
        /\ call[p].timeoutMs = 120000
        /\ TimeoutSet(call[p].log[2].text) = 60000

\* C14: a call of runQuery that supplies no limit applies the limit 200, one
\* that supplies no offset applies the offset 0, in the values it sends and
\* in the result it returns; a call that supplies none of params, limit and
\* offset sends exactly the values 200, 0
C14_Defaults ==
    \A p \in InRunQuery :
        LET c == call[p]
            noLimit == "limit" \notin c.supplied
            noOffset == "offset" \notin c.supplied
            noParams == "params" \notin c.supplied
        IN  /\ Connected(c) /\ noLimit => c.clampedLimit = 200
            /\ Connected(c) /\ noOffset => c.clampedOffset = 0
            /\ c.pc \in {"commit", "done"} /\ Connected(c) /\ c.outcome \notin {"BEGIN", "SET"}
                  => WrappedEvents(c) # {}
            /\ \A i \in WrappedEvents(c) :
                  LET v == c.log[i].values
                  IN  /\ noLimit => v[Len(v) - 1] = 200
                      /\ noOffset => v[Len(v)] = 0
                      /\ noParams /\ noLimit /\ noOffset => v = <<200, 0>>
            /\ c.outcome = "ok" =>
                  /\ noLimit => c.result[1].appliedLimit = 200
                  /\ noOffset => c.result[1].appliedOffset = 0

C14_Witness ==
    \E p \in InRunQuery :
        /\ call[p].outcome = "ok"
        /\ call[p].supplied \cap {"params", "limit", "offset"} = {}
        /\ call[p].log[3].values = <<200, 0>>
        /\ call[p].result[1].appliedLimit = 200
        /\ call[p].result[1].appliedOffset = 0

\* C15: a call of runQuery with valid SQL and the limit 0 is not rejected:
\* it asks for a connection, it sends the wrapped statement with the limit
\* value 0 and not the default, and when it succeeds it returns
\* appliedLimit = 0 and no rows, whatever the store holds
C15_LimitZero ==
    \A p \in InRunQuery :
        LET c == call[p]
        IN  "limit" \in c.supplied /\ c.limit = 0 /\ c.pc # "idle" =>
              /\ c.outcome \notin ValidationErrors
              /\ c.outcome # "config"
              /\ Connected(c) => c.clampedLimit = 0
              /\ \A i \in WrappedEvents(c) :
                    c.log[i].values[Len(c.log[i].values) - 1] = 0
              /\ c.outcome = "ok" =>
                    /\ c.result[1].appliedLimit = 0
                    /\ c.result[1].rowCount = 0
                    /\ c.result[1].rows = <<>>

C15_Witness ==
    \E p \in InRunQuery :
        /\ "limit" \in call[p].supplied
        /\ call[p].limit = 0
        /\ call[p].outcome = "ok"
        /\ dataStore > 0
        /\ call[p].result[1].rows = <<>>

\* ------------------------------------------------------------------------
\* Properties of getSchema (specification Spec)

InGetSchema == { p \in DOMAIN call : call[p].op = "getSchema" }

\* the error a failed statement of getSchema raises, by the statement's text
SchemaErrorOf(text) ==
    IF text = BeginText THEN "BEGIN"
    ELSE IF text = CommitText THEN "COMMIT"
    ELSE IF text = ColumnsText THEN "COLUMNS"
    ELSE "INDEXES"

\* C18: a call of getSchema that succeeded did exactly this with one
\* connection, all of it answered: BEGIN READ ONLY, the columns query, the
\* indexes query, COMMIT, release; in every call the two queries are sent only
\* after BEGIN READ ONLY was answered and before any COMMIT or ROLLBACK; when
\* a statement has failed and the call has ended, ROLLBACK was the next thing
\* sent on that connection, the caller has the error of the failed statement
\* and no bundle; a call has a bundle only when it succeeded
C18_SchemaTransaction ==
    \A p \in InGetSchema :
        LET c == call[p]
        IN  /\ c.outcome = "ok" =>
                /\ Len(c.log) = 5
                /\ \A i \in 1..5 : c.log[i].conn = c.client /\ c.log[i].ok
                /\ \A i \in 1..4 : c.log[i].what = "query"
                /\ c.log[1].text = BeginText
                /\ c.log[2].text = ColumnsText
                /\ c.log[3].text = IndexesText
                /\ c.log[4].text = CommitText
                /\ c.log[5].what = "release"
                /\ DOMAIN c.result[1] = {"columns", "indexes", "summary"}
            /\ c.result # <<>> => c.outcome = "ok"
            /\ \A i \in Worked(c) :
                /\ c.log[1].text = BeginText /\ c.log[1].ok
                /\ c.log[i].conn = c.log[1].conn
                /\ \A k \in 2..(i - 1) : k \in Worked(c) /\ c.log[k].ok
            /\ \A i \in FailedInTry(c) :
                  c.pc = "done" =>
                    /\ i + 1 \in DOMAIN c.log
                    /\ c.log[i + 1].what = "query"
                    /\ c.log[i + 1].text = RollbackText
                    /\ c.log[i + 1].conn = c.log[i].conn
                    /\ c.outcome = SchemaErrorOf(c.log[i].text)
                    /\ c.result = <<>>

C18_Witness ==
    \E p \in InGetSchema :
        /\ call[p].pc = "done"
        /\ call[p].outcome = "INDEXES"
        /\ Len(call[p].log) = 5
        /\ call[p].log[2].ok
        /\ call[p].log[4].text = RollbackText

\* the text contains the word
Contains(text, word) ==
    \E i \in 1..(Len(text) - Len(word) + 1) :
        SubSeq(text, i, i + Len(word) - 1) = word

\* C19: every call of getSchema that succeeded returns one and the same
\* summary text, which names field_changes and current_field_values, whatever
\* columns and indexes the introspection found, none included
C19_StaticSummary ==
    \A p \in InGetSchema :
        call[p].outcome = "ok" =>
            /\ Contains(call[p].result[1].summary,
                        <<"f","i","e","l","d","_","c","h","a","n","g","e","s">>)
            /\ Contains(call[p].result[1].summary,
                        <<"c","u","r","r","e","n","t","_","f","i","e","l","d","_","v","a","l","u","e","s">>)
            /\ \A q \in InGetSchema :
                  call[q].outcome = "ok" =>
                      call[q].result[1].summary = call[p].result[1].summary

C19_Witness ==
    \E p, q \in InGetSchema :
        /\ call[p].outcome = "ok"
        /\ call[q].outcome = "ok"
        /\ call[p].result[1].columns = <<>>
        /\ call[p].result[1].indexes = <<>>
        /\ call[q].result[1].columns # <<>>
        /\ call[q].result[1].indexes # <<>>

\* ------------------------------------------------------------------------
\* Properties of calls side by side (specification Spec)

\* the arguments of a call of runQuery
Arguments(c) ==
    <<c.supplied, c.sql, c.params, c.limit, c.offset, c.timeoutMs>>

\* the statements a call has sent with values, in the order it sent them
SentWrapped(c) ==
    LET RECURSIVE S(_)
        S(k) == IF k = 0 THEN <<>>
                ELSE IF k \in WrappedEvents(c)
                     THEN Append(S(k - 1), <<c.log[k].text, c.log[k].values>>)
                     ELSE S(k - 1)
    IN  S(Len(c.log))

\* C20: two calls of runQuery with the same arguments, one after the other
\* or at the same time and whatever else was called, send the same wrapped
\* text with the same values and, the data store being the same, return the
\* same rows, rowCount, appliedLimit and appliedOffset when both succeed
C20_SameArgumentsSameResult ==
    \A p, q \in InRunQuery :
        LET c == call[p]
            d == call[q]
        IN  Arguments(c) = Arguments(d) =>
              /\ Connected(c) /\ Connected(d) =>
                    /\ c.clampedLimit = d.clampedLimit
                    /\ c.clampedOffset = d.clampedOffset
              /\ SentWrapped(c) # <<>> /\ SentWrapped(d) # <<>> =>
                    SentWrapped(c) = SentWrapped(d)
              /\ c.outcome = "ok" /\ d.outcome = "ok" => c.result = d.result

C20_Witness ==
    \E p, q \in InRunQuery :
        /\ p # q
        /\ call[p].outcome = "ok"
        /\ call[q].outcome = "ok"
        /\ call[p].client # call[q].client
        /\ call[p].result[1].rowCount > 0
        /\ call[p].result = call[q].result

\* ------------------------------------------------------------------------
\* Properties of the exhausted pool (specification SpecExhaust)

\* the log of call p grows by events on a connection another call holds
IssuesOnHeld(p) ==
    /\ Len(call'[p].log) > Len(call[p].log)
    /\ \E i \in (Len(call[p].log) + 1)..Len(call'[p].log) :
          \E q \in Holding \ {p} : call[q].client = call'[p].log[i].conn

\* no two calls hold the same connection and at most 5 are checked out
PoolExclusive ==
    /\ \A p, q \in Holding : p # q => call[p].client # call[q].client
    /\ checkedOut = { call[p].client : p \in Holding }
    /\ Cardinality(checkedOut) <= 5

WaitsOrTimesOut(p) ==
    call[p].pc = "connect" /\ checkedOut = Connections =>
        \/ call'[p] = call[p]
        \/ /\ call'[p].pc = "done"
           /\ call'[p].outcome = "exhausted"
           /\ checkedOut' = checkedOut

\* the call ended by a rejected connect(): no transaction was begun, no
\* ROLLBACK sent, nothing released, no result
EndedUnconnected(c) ==
    c.outcome \in {"exhausted", "connect"} =>
        c.pc = "done" /\ c.log = <<>> /\ c.client = 0 /\ c.result = <<>>

\* C17: while all 5 connections are checked out, a call that asked for one
\* stays at connect() until one is released or the pool's acquisition timeout
\* rejects it; a call that connect() rejected ends with that error and has
\* sent no BEGIN and no ROLLBACK, released nothing and read no timeoutMs
C17_ExhaustedPool ==
    /\ [](\A p \in DOMAIN call : EndedUnconnected(call[p]))
    /\ [][\A p \in DOMAIN call : WaitsOrTimesOut(p)]_vars

C17_Witness ==
    /\ checkedOut = Connections
    /\ \E p \in DOMAIN call : call[p].outcome = "exhausted"
    /\ call["c1"].pc = "begin"
    /\ call["c1"].client < 5

\* ------------------------------------------------------------------------
\* The current_date tool
\*
\* A calendar date is <<year, month, day>> with month in 1..12; a quarter
\* label `Q${q} ${year}` is <<q, year>>.

IsLeap(y) == (y % 4 = 0 /\ y % 100 # 0) \/ y % 400 = 0

DaysIn(y, m) ==
    IF m = 2 THEN (IF IsLeap(y) THEN 29 ELSE 28)
    ELSE IF m \in {4, 6, 9, 11} THEN 30 ELSE 31

\* the calendar day before a date
PrevDay(date) ==
    LET y == date[1]
        m == date[2]
        d == date[3]
    IN  IF d > 1 THEN <<y, m, d - 1>>
        ELSE IF m > 1 THEN <<y, m - 1, DaysIn(y, m - 1)>>
        ELSE <<y - 1, 12, 31>>

\* new Date(year, monthIndex, day): local midnight of the date, with the
\* month index carried into the year and day 0 the day before day 1
DateOf(year, monthIndex, day) ==
    LET first == <<year + (monthIndex \div 12), (monthIndex % 12) + 1, 1>>
    IN  IF day = 0 THEN PrevDay(first) ELSE <<first[1], first[2], day>>

\* where the process's time zone lies relative to UTC
Zones == {"behind", "utc", "ahead"}

\* date.toISOString().split("T")[0] for a date at local midnight: the UTC
\* calendar date of that instant, the day before in a zone ahead of UTC
ToISODate(date, zone) == IF zone = "ahead" THEN PrevDay(date) ELSE date

\* Math.ceil(currentMonth / 3)
QuarterOf(month) == (month + 2) \div 3

\* what current_date.execute returns, the fields of the quarters
CurrentDate(now, zone) ==
    LET currentYear == now[1]
        currentMonth == now[2]
        currentQuarter == QuarterOf(currentMonth)
        quarterStartMonth == (currentQuarter - 1) * 3 + 1
        quarterEndMonth == currentQuarter * 3
        quarterStart == DateOf(currentYear, quarterStartMonth - 1, 1)
        quarterEnd == DateOf(currentYear, quarterEndMonth, 0)
        nextQuarter == IF currentQuarter = 4 THEN 1 ELSE currentQuarter + 1
        nextQuarterYear == IF currentQuarter = 4 THEN currentYear + 1 ELSE currentYear
        nextQuarterStartMonth == (nextQuarter - 1) * 3 + 1
        nextQuarterEndMonth == nextQuarter * 3
        nextQuarterStart == DateOf(nextQuarterYear, nextQuarterStartMonth - 1, 1)
        nextQuarterEnd == DateOf(nextQuarterYear, nextQuarterEndMonth, 0)
    IN  [current_year |-> currentYear,
         current_month |-> currentMonth,
         current_quarter |-> <<currentQuarter, currentYear>>,
         current_quarter_start |-> ToISODate(quarterStart, zone),
         current_quarter_end |-> ToISODate(quarterEnd, zone),
         next_quarter |-> <<nextQuarter, nextQuarterYear>>,
         next_quarter_start |-> ToISODate(nextQuarterStart, zone),
         next_quarter_end |-> ToISODate(nextQuarterEnd, zone)]

\* current_date.execute
CurrentDateExecute ==
    /\ dateTool.pc = "idle"
    /\ dateTool' = [dateTool EXCEPT
                       !.pc = "done",
                       !.result = <<CurrentDate(dateTool.now, dateTool.zone)>>]
    /\ UNCHANGED <<dbVars, slack>>

\* the model has the tool's result
CurrentDateReturn ==
    /\ dateTool.pc = "done"
    /\ dateTool' = [dateTool EXCEPT !.pc = "idle", !.result = <<>>]
    /\ UNCHANGED <<dbVars, slack>>

\* the years the clock runs through
Years == {2023, 2024}

\* the days of a month the clock shows
Days == {1, 28}

\* time passes between two executions of the tool
ClockTick ==
    /\ dateTool.pc = "idle"
    /\ \E y \in Years, m \in 1..12, d \in Days :
          /\ \/ y > dateTool.now[1]
             \/ y = dateTool.now[1] /\ m > dateTool.now[2]
             \/ y = dateTool.now[1] /\ m = dateTool.now[2] /\ d > dateTool.now[3]
          /\ dateTool' = [dateTool EXCEPT !.now = <<y, m, d>>]
    /\ UNCHANGED <<dbVars, slack>>

\* the tool in a process whose clock and zone are any of the above
InitDate ==
    /\ call = [p \in OneCaller |-> IdleCall]
    /\ pool = "null"
    /\ poolCount = 0
    /\ checkedOut = {}
    /\ dbUrl = TRUE
    /\ dataStore = 0
    /\ slack = IdleSlack
    /\ \E y \in Years, m \in 1..12, d \in Days, z \in Zones :
          dateTool = [IdleDate EXCEPT !.now = <<y, m, d>>, !.zone = z]

NextDate ==
    \/ CurrentDateExecute
    \/ CurrentDateReturn
    \/ ClockTick

SpecDate == InitDate /\ [][NextDate]_vars

\* C21: in every result of the current_date tool, with m the current month
\* and y the current year, the current quarter is q = ceil(m / 3), one of
\* 1..4, of y; the start of the current quarter lies in month 3 * (q - 1) + 1
\* of y and its end in month 3 * q of y; the next quarter is q + 1 of y, and
\* after Q4 it is Q1 of y + 1, starting in month 3 * (n - 1) + 1 and ending
\* in month 3 * n of its year
C21_QuarterArithmetic ==
    dateTool.result # <<>> =>
        LET r == dateTool.result[1]
            m == r.current_month
            y == r.current_year
            q == CHOOSE k \in 1..4 : 3 * (k - 1) < m /\ m <= 3 * k
            n == IF q = 4 THEN 1 ELSE q + 1
            ny == IF q = 4 THEN y + 1 ELSE y
        IN  /\ m = dateTool.now[2] /\ y = dateTool.now[1]
            /\ r.current_quarter = <<q, y>>
            /\ r.current_quarter_start[1] = y
            /\ r.current_quarter_start[2] = 3 * (q - 1) + 1
            /\ r.current_quarter_end[1] = y
            /\ r.current_quarter_end[2] = 3 * q
            /\ r.next_quarter = <<n, ny>>
            /\ r.next_quarter_start[1] = ny
            /\ r.next_quarter_start[2] = 3 * (n - 1) + 1
            /\ r.next_quarter_end[1] = ny
            /\ r.next_quarter_end[2] = 3 * n

\* ------------------------------------------------------------------------
\* Progress of the calls (specification SpecLive)

\* the step a call under way takes when what it awaits settles
CallStep(p) ==
    \/ RunQueryConnect(p)
    \/ RunQueryConnectFail(p)
    \/ RunQueryBegin(p)
    \/ RunQuerySetTimeout(p)
    \/ RunQueryExec(p)
    \/ RunQueryCommit(p)
    \/ RunQueryRollback(p)
    \/ GetSchemaConnect(p)
    \/ GetSchemaConnectFail(p)
    \/ GetSchemaBegin(p)
    \/ GetSchemaColumns(p)
    \/ GetSchemaIndexes(p)
    \/ GetSchemaCommit(p)
    \/ GetSchemaRollback(p)

\* every promise a call awaits settles: the store answers or fails each
\* statement, and connect() resolves or rejects within the pool's
\* connectionTimeoutMillis; the event loop then resumes the call
Fairness == \A p \in Callers : WF_vars(CallStep(p))

\* two callers over a store that holds MaxRows rows
InitLive == InitWith(Callers, BOOLEAN, {MaxRows})

\* the two callers with every awaited promise settling
SpecLive == InitLive /\ [][Next]_vars /\ Fairness

\* the call of caller p is under way
UnderWay(p) == call[p].pc \notin {"idle", "done"}

Failed(p) == call[p].pc = "done" /\ call[p].outcome # "ok"

\* the call got past validation and getPool
NeededConnection(c) == c.outcome \notin ValidationErrors \cup {"config"}

\* the call passed validation and names a placeholder that neither params,
\* the limit nor the offset binds: the store rejects its statement
Doomed(c) ==
    /\ c.op = "runQuery"
    /\ c.pc # "idle"
    /\ c.outcome \notin ValidationErrors
    /\ ~Bound(Wrapped(c.safeSql, LimitIdx(c.safeSql, c.params),
                      OffsetIdx(c.safeSql, c.params)),
              Values(c.params, 0, 0))

\* C23 as stated, for a call that can only fail: the call leaves the pool
\* reference as it was before the call, so no step of the call changes it,
\* and its first step does not
C23_FailedCallLeavesNoTrace ==
    [][\A p \in DOMAIN call :
          call[p].pc = "idle" /\ Doomed(call'[p]) => pool' = pool]_vars

\* the step ends the call of caller p in an error
FailingStep(p) == call[p].pc # "done" /\ call'[p].pc = "done" /\ call'[p].outcome # "ok"

\* C23: a failed call leaves nothing behind but the pool. A call that got
\* past validation and getPool leaves the pool cached when it fails, and a
\* call that can only fail does fail; the step that ends a call in an
\* error gives back the call's own connection and touches neither the pool
\* nor any other call; no step changes the record of two calls, and a pool
\* once cached is never replaced
C23_FailedCallKeepsOnlyThePool ==
    /\ [](\A p \in DOMAIN call :
            /\ Failed(p) /\ NeededConnection(call[p]) => pool = "pool"
            /\ Doomed(call[p]) /\ call[p].pc = "done" => Failed(p))
    /\ [][\A p \in DOMAIN call :
            /\ FailingStep(p) =>
                  /\ checkedOut' = checkedOut \ {call[p].client}
                  /\ pool' = pool
                  /\ poolCount' = poolCount
            /\ call'[p] # call[p] =>
                  \A q \in DOMAIN call \ {p} : call'[q] = call[q]]_vars
    /\ [][pool # "null" => pool' = pool /\ poolCount' = poolCount]_vars

\* a call that could only fail has failed at the store, after it had
\* acquired a connection, and has given the connection back
C23_Witness ==
    \E p \in DOMAIN call :
        /\ Failed(p) /\ Doomed(call[p])
        /\ call[p].outcome = "QUERY"
        /\ call[p].client # 0
        /\ pool = "pool" /\ checkedOut = {}

\* ------------------------------------------------------------------------
\* the pool

\* the call got past validation and getPool
PastGetPool(c) ==
    c.pc # "idle" /\ c.outcome \notin ValidationErrors \cup {"config"}

\* the step is the first step of a call of caller p, and the call gets past
\* validation and getPool
FirstNeed(p) == call[p].pc = "idle" /\ PastGetPool(call'[p])

\* C24: the pool is a lazily initialised singleton. At most one pool is ever
\* constructed and the reference is null exactly until then; it is
\* constructed in the first step of a call that needs a connection, which
\* every call past getPool finds constructed; and once there is a pool no
\* step replaces it or constructs another
C24_LazySingleton ==
    /\ [](/\ poolCount <= 1
          /\ (pool = "null") = (poolCount = 0)
          /\ \A p \in DOMAIN call : PastGetPool(call[p]) => pool = "pool")
    /\ [][pool' # pool \/ poolCount' # poolCount =>
            /\ pool = "null" /\ pool' = "pool" /\ poolCount' = 1
            /\ \E p \in DOMAIN call : FirstNeed(p)]_vars
    /\ [][pool # "null" => pool' = pool /\ poolCount' = poolCount]_vars

\* a getSchema call and a runQuery call hold connections of the one pool
C24_Witness ==
    /\ pool = "pool" /\ poolCount = 1
    /\ \E p, q \in DOMAIN call :
          /\ call[p].op = "getSchema" /\ call[q].op = "runQuery"
          /\ call[p].client # 0 /\ call[q].client # 0
          /\ {call[p].client, call[q].client} \subseteq checkedOut
          /\ call[p].client # call[q].client

\* C25: with DATABASE_URL absent every call ends in its first step, before
\* any connection is asked for and with nothing sent: getSchema and a
\* runQuery with valid SQL with the configuration error, a runQuery with
\* invalid SQL with its validation error; no pool is constructed or cached
C25_NoDatabaseUrl ==
    ~dbUrl =>
        /\ pool = "null" /\ poolCount = 0 /\ checkedOut = {}
        /\ \A p \in DOMAIN call :
              call[p].pc # "idle" =>
                  /\ call[p].pc = "done"
                  /\ call[p].client = 0
                  /\ call[p].log = <<>>
                  /\ call[p].outcome =
                        IF /\ call[p].op = "runQuery"
                           /\ ensureSelectOnly(call[p].sql).err # "none"
                        THEN ensureSelectOnly(call[p].sql).err
                        ELSE "config"

\* without DATABASE_URL a getSchema call, a runQuery call with valid SQL and
\* a runQuery call with invalid SQL have ended
C25_Witness ==
    /\ ~dbUrl
    /\ \E p, q \in DOMAIN call :
          /\ call[p].pc = "done" /\ call[q].pc = "done"
          /\ call[p].op = "runQuery" /\ call[p].outcome = "config"
          /\ call[q].op = "runQuery" /\ call[q].outcome \in ValidationErrors

\* ------------------------------------------------------------------------
\* the order of the validation rules

\* the rules the SQL text violates, each as ensureSelectOnly tests it
Violates(sql) ==
    LET s == Trim(sql)
        noSemi == RemoveTrailingSemi(s)
    IN  [single |-> MultipleStatements(s),
         select |-> ~HeadAllowed(noSemi),
         forbidden |-> ForbiddenTest(noSemi)]

\* C26: a runQuery call is rejected with one reason, that of the first rule
\* its SQL violates in the order multiple statements, head, forbidden
\* keyword, and with none when it violates none; 'insert into t values (1)'
\* is rejected by the head rule and 'select 1; select 2' as multiple
\* statements
C26_FirstViolatedRule ==
    \A p \in DOMAIN call :
        call[p].op = "runQuery" /\ call[p].pc # "idle" =>
            LET v == Violates(call[p].sql)
                o == call[p].outcome
            IN  /\ v.single => o = "single"
                /\ ~v.single /\ v.select => o = "select"
                /\ ~v.single /\ ~v.select /\ v.forbidden => o = "forbidden"
                /\ ~v.single /\ ~v.select /\ ~v.forbidden =>
                      o \notin ValidationErrors
                /\ call[p].sql = InsertExample => o = "select"
                /\ call[p].sql = TwoSelectsExample => o = "single"

\* 'insert into t values (1)', which violates the head rule and the keyword
\* rule, has been rejected by the head rule
C26_Witness ==
    \E p \in DOMAIN call :
        /\ call[p].pc = "done"
        /\ call[p].sql = InsertExample
        /\ Violates(call[p].sql) =
              [single |-> FALSE, select |-> TRUE, forbidden |-> TRUE]
        /\ call[p].outcome = "select"

\* ------------------------------------------------------------------------
\* The Slack handlers (slack.ts)
\*
\* slack.pc is where the handler of the event stands: "idle", "add" (before
\* reactions.add), "session" (runAgentSession entered), "stream" (in the
\* loop over textStream), "final" (before the final write), "debug" (before
\* the follow-up), "catch" (in the catch block of runAgentSession), "remove"
\* (in the finally block of the handler) and "returned".
\* slack.api is every call of the Slack Web API the handler made, in order,
\* and slack.logs what it wrote to the logger.

\* the deltas of one text stream
MaxDeltas == 3

\* the tool executions of one session
MaxTools == 1

\* err.message.slice(0, 600)
ErrorSlice == 600

\* the bot's own mention, <@${botUserId}>, as one element of a text
Mention == "<@B>"

Hi == <<"h", "i">>

ProjectWord == <<"P", "r", "o", "j", "e", "c", "t">>

\* the text of an app_mention event
MentionTexts ==
    { <<Mention>>,
      <<Mention, " ">>,
      <<Mention, " ">> \o Hi,
      <<Mention, " ">> \o ProjectWord }

\* the text of a message event; a text left out is '' by e.text || ""
MessageTexts == { <<>>, <<" ">>, Hi, ProjectWord }

\* channel_type of a message event; "none" when the event has none
ChannelTypes == {"im", "channel", "none"}

\* subtype of a message event; "none" when the event has none
Subtypes == {"none", "bot_message"}

\* what JavaScript takes for true among the values a field holds
Truthy(x) == x \notin {"none", ""}

\* what a rejected promise carries: an Error whose message has len
\* characters, or a value without a string message
ErrorValues ==
    { [string |-> TRUE, len |-> n] : n \in {0, ErrorSlice, ErrorSlice + 1} }
        \cup { [string |-> FALSE, len |-> 0] }

\* cleanMention
cleanMention(text, botUserId) ==
    IF botUserId
    THEN Trim(SelectSeq(text, LAMBDA x : x # Mention))
    ELSE text

\* !userText || userText.trim().length === 0
Blank(userText) == Len(userText) = 0 \/ Len(Trim(userText)) = 0

\* userText.toLowerCase().includes('project') || ...includes('database')
WantsData(userText) ==
    \/ Contains(ToLowerCase(userText), <<"p","r","o","j","e","c","t">>)
    \/ Contains(ToLowerCase(userText), <<"d","a","t","a","b","a","s","e">>)

\* one call of the Slack Web API: the method, what the handler called it
\* for, the message it is about (the ts a post returned, the ts an update
\* names), whether it succeeded, and for an error message how many
\* characters of err.message it carries
ApiCall(method, purpose, ts, ok) ==
    [method |-> method, purpose |-> purpose, ts |-> ts, ok |-> ok,
     carried |-> 0, unexpected |-> FALSE]

\* the ts Slack gives the next message posted
NextTs(s) ==
    Cardinality({ i \in DOMAIN s.api :
                    s.api[i].method = "chat.postMessage" /\ s.api[i].ok }) + 1

\* chat.postMessage: the call recorded, with the ts of the new message
Posted(s, purpose, ok) ==
    [s EXCEPT !.api = Append(@, ApiCall("chat.postMessage", purpose,
                                        IF ok THEN NextTs(s) ELSE 0, ok))]

\* chat.update of the message currentMessageTs
Updated(s, purpose, ok) ==
    [s EXCEPT !.api = Append(@, ApiCall("chat.update", purpose,
                                        s.currentMessageTs, ok))]

\* the catch block of runAgentSession is entered with e
SessionCaught(s, e) == [s EXCEPT !.pc = "catch", !.err = <<e>>]

\* runAgentSession returned
SessionReturned(s) == [s EXCEPT !.pc = "remove"]

\* runAgentSession threw: the catch block of the handler logs the error
HandlerCaught(s) == [s EXCEPT !.pc = "remove", !.logs = Append(@, "error")]

\* app.event("app_mention") up to its try block
AppMention(text, botUserId) ==
    /\ slack.pc = "idle"
    /\ slack' = [slack EXCEPT !.pc = "add", !.handler = "app_mention",
                              !.userText = cleanMention(text, botUserId)]
    /\ UNCHANGED <<dbVars, dateTool>>

\* the message handler acting on every direct message, whatever its subtype
MessageAnySubtype(channel_type, subtype, text) ==
    /\ slack.pc = "idle"
    /\ LET s == [slack EXCEPT !.handler = "message",
                              !.channel_type = channel_type,
                              !.subtype = subtype]
       IN  IF channel_type # "im"
           THEN slack' = [s EXCEPT !.pc = "returned"]
           ELSE slack' = [s EXCEPT !.pc = "add", !.userText = text]
    /\ UNCHANGED <<dbVars, dateTool>>

\* app.event("message") up to its try block
Message(channel_type, subtype, text) ==
    /\ slack.pc = "idle"
    /\ LET s == [slack EXCEPT !.handler = "message",
                              !.channel_type = channel_type,
                              !.subtype = subtype]
       IN  IF channel_type # "im" \/ Truthy(subtype)
           THEN slack' = [s EXCEPT !.pc = "returned"]
           ELSE slack' = [s EXCEPT !.pc = "add", !.userText = text]
    /\ UNCHANGED <<dbVars, dateTool>>

\* reactions.add whose failure ends the handler's try block
ReactionsAddAborting ==
    /\ slack.pc = "add"
    /\ \E ok \in BOOLEAN :
          LET s == [slack EXCEPT !.api =
                        Append(@, ApiCall("reactions.add", "status", 0, ok))]
          IN  slack' = IF ok THEN [s EXCEPT !.pc = "session"]
                       ELSE HandlerCaught(s)
    /\ UNCHANGED <<dbVars, dateTool>>

\* reactions.add in its own try block
ReactionsAdd ==
    /\ slack.pc = "add"
    /\ \E ok \in BOOLEAN :
          LET s == [slack EXCEPT !.api =
                        Append(@, ApiCall("reactions.add", "status", 0, ok))]
          IN  slack' = IF ok THEN [s EXCEPT !.pc = "session"]
                       ELSE [s EXCEPT !.pc = "session",
                                      !.logs = Append(@, "failed_to_add_reaction")]
    /\ UNCHANGED <<dbVars, dateTool>>

\* runAgentSession up to the loop: the help message for a blank text,
\* streamText otherwise
SessionStart ==
    /\ slack.pc = "session"
    /\ IF Blank(slack.userText)
       THEN \E ok \in BOOLEAN :
               slack' = IF ok THEN SessionReturned(Posted(slack, "help", ok))
                        ELSE HandlerCaught(Posted(slack, "help", ok))
       ELSE slack' = [slack EXCEPT !.pc = "stream", !.streaming = TRUE,
                                   !.currentMessageTs = 0]
    /\ UNCHANGED <<dbVars, dateTool>>

\* a tool's execute runs: toolsExecuted++
ToolExecute ==
    /\ slack.pc = "stream"
    /\ slack.toolsExecuted < MaxTools
    /\ slack' = [slack EXCEPT !.toolsExecuted = @ + 1]
    /\ UNCHANGED <<dbVars, dateTool>>

\* a flush that posts a new message every time
StreamDeltaPosting ==
    /\ slack.pc = "stream"
    /\ slack.deltas < MaxDeltas
    /\ \E flush, ok \in BOOLEAN : \E e \in ErrorValues :
          LET s == [slack EXCEPT !.deltas = @ + 1]
          IN  IF ~flush THEN slack' = s
              ELSE IF ok
              THEN slack' = [Posted(s, "stream", ok)
                                EXCEPT !.currentMessageTs = NextTs(s)]
              ELSE slack' = SessionCaught(Posted(s, "stream", ok), e)
    /\ UNCHANGED <<dbVars, dateTool>>

\* one pass of the loop over textStream: the delta is accumulated, and when
\* the throttle has elapsed or the delta has a newline the text is flushed,
\* by an update of the message posted (its failure only warned about) or,
\* when there is none, by a post whose ts is kept
StreamDelta ==
    /\ slack.pc = "stream"
    /\ slack.deltas < MaxDeltas
    /\ \E flush, ok \in BOOLEAN : \E e \in ErrorValues :
          LET s == [slack EXCEPT !.deltas = @ + 1]
          IN  IF ~flush THEN slack' = s
              ELSE IF s.currentMessageTs # 0
              THEN slack' = Updated(s, "stream", ok)
              ELSE IF ok
              THEN slack' = [Posted(s, "stream", ok)
                                EXCEPT !.currentMessageTs = NextTs(s)]
              ELSE slack' = SessionCaught(Posted(s, "stream", ok), e)
    /\ UNCHANGED <<dbVars, dateTool>>

\* the stream, result.text or result.toolResults rejects
StreamThrows ==
    /\ slack.pc = "stream"
    /\ \E e \in ErrorValues : slack' = SessionCaught(slack, e)
    /\ UNCHANGED <<dbVars, dateTool>>

\* the stream is at its end and text and tool results have arrived
StreamEnd ==
    /\ slack.pc = "stream"
    /\ slack' = [slack EXCEPT !.pc = "final"]
    /\ UNCHANGED <<dbVars, dateTool>>

\* the final write: an update of the message posted, a post when there is
\* none; then the follow-up when no tool ran and the text asks for data
FinalWrite ==
    /\ slack.pc = "final"
    /\ \E ok \in BOOLEAN : \E e \in ErrorValues :
          LET s == IF slack.currentMessageTs # 0
                   THEN Updated(slack, "final", ok)
                   ELSE Posted(slack, "final", ok)
          IN  IF ~ok THEN slack' = SessionCaught(s, e)
              ELSE IF s.toolsExecuted = 0 /\ WantsData(s.userText)
              THEN slack' = [s EXCEPT !.pc = "debug"]
              ELSE slack' = SessionReturned(s)
    /\ UNCHANGED <<dbVars, dateTool>>

\* the [Debug] follow-up message
DebugFollowUp ==
    /\ slack.pc = "debug"
    /\ \E ok \in BOOLEAN : \E e \in ErrorValues :
          slack' = IF ok THEN SessionReturned(Posted(slack, "debug", ok))
                   ELSE SessionCaught(Posted(slack, "debug", ok), e)
    /\ UNCHANGED <<dbVars, dateTool>>

\* the error message carrying the whole of err.message
ErrorPostWhole(s, ok) ==
    LET e == s.err[1]
        posted == Posted(s, "error", ok)
        n == Len(posted.api)
    IN  [posted EXCEPT !.api[n].carried = IF e.string THEN e.len ELSE 0,
                       !.api[n].unexpected = ~e.string]

\* the text of the error message: err.message.slice(0, 600) when
\* err.message is a string, "unexpected_error" otherwise
ErrorPost(s, ok) ==
    LET e == s.err[1]
        posted == Posted(s, "error", ok)
        n == Len(posted.api)
    IN  [posted EXCEPT !.api[n].carried =
                            IF e.string THEN Min2(e.len, ErrorSlice) ELSE 0,
                       !.api[n].unexpected = ~e.string]

\* the catch block of runAgentSession: the error message is posted; when
\* that post fails runAgentSession throws
CatchPost ==
    /\ slack.pc = "catch"
    /\ \E ok \in BOOLEAN :
          slack' = IF ok THEN SessionReturned(ErrorPost(slack, ok))
                   ELSE HandlerCaught(ErrorPost(slack, ok))
    /\ UNCHANGED <<dbVars, dateTool>>

\* the finally block of the handler: reactions.remove in its own try block
ReactionsRemove ==
    /\ slack.pc = "remove"
    /\ \E ok \in BOOLEAN :
          LET s == [slack EXCEPT !.pc = "returned", !.api =
                        Append(@, ApiCall("reactions.remove", "status", 0, ok))]
          IN  slack' = IF ok THEN s
                       ELSE [s EXCEPT !.logs =
                                Append(@, "failed_to_remove_reaction")]
    /\ UNCHANGED <<dbVars, dateTool>>

AppMentions ==
    \E text \in MentionTexts : \E botUserId \in BOOLEAN :
        AppMention(text, botUserId)

Messages ==
    \E channel_type \in ChannelTypes : \E subtype \in Subtypes :
        \E text \in MessageTexts : Message(channel_type, subtype, text)

\* one event, handled by the handler registered for it
InitSlack == InitWith(OneCaller, {TRUE}, {MaxRows})

NextSlack ==
    \/ AppMentions
    \/ Messages
    \/ ReactionsAdd
    \/ SessionStart
    \/ ToolExecute
    \/ StreamDelta
    \/ StreamThrows
    \/ StreamEnd
    \/ FinalWrite
    \/ DebugFollowUp
    \/ CatchPost
    \/ ReactionsRemove

SpecSlack == InitSlack /\ [][NextSlack]_vars

\* ------------------------------------------------------------------------
\* Properties of the Slack handlers (specification SpecSlack)

\* the calls of a method among the API calls made
Calls(s, method) == { i \in DOMAIN s.api : s.api[i].method = method }

\* the calls made for a purpose
CallsFor(s, purpose) == { i \in DOMAIN s.api : s.api[i].purpose = purpose }

\* how often the logger was given the entry
Logged(s, entry) == Cardinality({ i \in DOMAIN s.logs : s.logs[i] = entry })

\* runAgentSession was entered
SessionRan(s) == s.streaming \/ CallsFor(s, "help") # {}

\* C27: in both handlers the removal of the status reaction is attempted
\* once, as the last call of the handler and after the session has ended,
\* whether the session returned or threw; reactions.add is followed by the
\* session whether it succeeded or failed; a failed add and a failed remove
\* are logged once each and the handler does not throw
C27_ReactionRemovedOnce ==
    /\ [](LET adds == Calls(slack, "reactions.add")
              removes == Calls(slack, "reactions.remove")
          IN  /\ Cardinality(adds) <= 1 /\ Cardinality(removes) <= 1
              /\ ~slack.threw
              /\ removes # {} => slack.pc = "returned"
              /\ slack.pc = "returned" /\ adds # {} =>
                    /\ removes = {Len(slack.api)}
                    /\ SessionRan(slack)
              /\ Logged(slack, "failed_to_add_reaction") =
                    Cardinality({ i \in adds : ~slack.api[i].ok })
              /\ Logged(slack, "failed_to_remove_reaction") =
                    Cardinality({ i \in removes : ~slack.api[i].ok }))
    /\ [][slack.pc = "add" => slack'.pc = "session"]_vars
    /\ [][slack.pc = "remove" =>
            /\ slack'.pc = "returned"
            /\ Len(slack'.api) = Len(slack.api) + 1]_vars

\* the handler has returned: the add failed, the session threw, and the
\* removal was attempted and failed
C27_Witness ==
    /\ slack.pc = "returned"
    /\ \E i \in Calls(slack, "reactions.add") : ~slack.api[i].ok
    /\ \E i \in Calls(slack, "reactions.remove") : ~slack.api[i].ok
    /\ Logged(slack, "error") = 1
    /\ slack.streaming

\* the posts of the streamed text
StreamPosts(s) ==
    { i \in Calls(s, "chat.postMessage") : s.api[i].purpose \in {"stream", "final"} }

\* the flushes before call i
FlushesBefore(s, i) == { j \in CallsFor(s, "stream") : j < i }

\* C28: runAgentSession posts at most one message for the streamed text.
\* The first flush is a post and every later flush an update; every update,
\* of a flush or of the final write, names the ts that the first flush's
\* post returned, which is currentMessageTs; the final write is a post
\* exactly when no flush came before it; and a failed update of a flush
\* leaves the session in its loop with nothing thrown
C28_OneStreamedMessage ==
    /\ [](/\ Cardinality(StreamPosts(slack)) <= 1
          /\ \A i \in CallsFor(slack, "stream") :
                (slack.api[i].method = "chat.postMessage")
                    = (FlushesBefore(slack, i) = {})
          /\ \A i \in Calls(slack, "chat.update") :
                \E j \in FlushesBefore(slack, i) :
                    /\ slack.api[j].method = "chat.postMessage"
                    /\ slack.api[j].ok
                    /\ slack.api[i].ts = slack.api[j].ts
                    /\ slack.api[i].ts = slack.currentMessageTs
          /\ \A i \in CallsFor(slack, "final") :
                (slack.api[i].method = "chat.postMessage")
                    = (FlushesBefore(slack, i) = {}))
    /\ [][\A i \in DOMAIN slack'.api \ DOMAIN slack.api :
            /\ slack'.api[i].method = "chat.update"
            /\ slack'.api[i].purpose = "stream"
            /\ ~slack'.api[i].ok
            => slack'.pc = "stream" /\ slack'.err = <<>>]_vars

\* a session has ended whose first flush posted, whose second flush failed
\* to update, whose third flush updated and whose final write updated
C28_Witness ==
    /\ slack.pc = "returned"
    /\ Len(slack.api) >= 5
    /\ \E k \in DOMAIN slack.api :
          /\ k + 3 \in DOMAIN slack.api
          /\ slack.api[k].method = "chat.postMessage"
          /\ slack.api[k].purpose = "stream"
          /\ slack.api[k + 1].method = "chat.update" /\ ~slack.api[k + 1].ok
          /\ slack.api[k + 2].method = "chat.update" /\ slack.api[k + 2].ok
          /\ slack.api[k + 3].method = "chat.update"
          /\ slack.api[k + 3].purpose = "final" /\ slack.api[k + 3].ok

\* the posts of the error message that arrived
ErrorsAnswered(s) == { i \in CallsFor(s, "error") : s.api[i].ok }

\* C29 as stated: an error thrown in a session is caught inside
\* runAgentSession, so the handler's catch block sees none, and it is
\* answered with one error message
C29_EveryErrorAnswered ==
    slack.pc = "returned" /\ slack.err # <<>> =>
        /\ Cardinality(ErrorsAnswered(slack)) = 1
        /\ Logged(slack, "error") = 0

\* the calls the session made: all but those about the reaction
SessionCalls(s) == { i \in DOMAIN s.api : s.api[i].purpose # "status" }

\* C29: an error thrown in the try block of runAgentSession is caught there
\* and one post of the error message is attempted, as the last call of the
\* session; the message carries the first 600 characters of err.message, the
\* whole of it when shorter, and "unexpected_error" when err.message is no
\* string. When that post fails, runAgentSession throws, the handler logs
\* the error and no error message has arrived. Without an error no error
\* message is posted. A blank user text gets one attempt to post the help
\* message and nothing else, with no stream started and no tool executed
C29_ErrorAnsweredOnceAttempted ==
    LET s == slack
        posts == CallsFor(s, "error")
    IN  s.pc \in {"remove", "returned"} =>
          /\ (s.err = <<>>) = (posts = {})
          /\ Cardinality(posts) <= 1
          /\ \A i \in posts :
                /\ \A j \in SessionCalls(s) : j <= i
                /\ s.api[i].method = "chat.postMessage"
                /\ s.api[i].carried <= ErrorSlice
                /\ s.api[i].unexpected = ~s.err[1].string
                /\ s.err[1].string =>
                      s.api[i].carried =
                          (IF s.err[1].len <= ErrorSlice THEN s.err[1].len
                           ELSE ErrorSlice)
                /\ Logged(s, "error") = (IF s.api[i].ok THEN 0 ELSE 1)
          /\ SessionRan(s) /\ Blank(s.userText) =>
                /\ ~s.streaming /\ s.toolsExecuted = 0
                /\ Cardinality(SessionCalls(s)) = 1
                /\ SessionCalls(s) = CallsFor(s, "help")

\* an error whose message has more than 600 characters was thrown after a
\* flush, and the error message carrying 600 of them has arrived
C29_Witness ==
    /\ slack.pc = "returned"
    /\ slack.err # <<>>
    /\ slack.err[1].string /\ slack.err[1].len > ErrorSlice
    /\ slack.currentMessageTs # 0
    /\ \E i \in ErrorsAnswered(slack) : slack.api[i].carried = ErrorSlice

\* the event is no direct message, or it carries a subtype
NotPlainDirectMessage(s) == s.channel_type # "im" \/ s.subtype # "none"

\* C30: for a message event that is no direct message or carries a subtype
\* the handler returns at once: it calls nothing of the Slack API, neither
\* reaction nor message, starts no session and logs nothing
C30_OnlyPlainDirectMessages ==
    slack.handler = "message" /\ NotPlainDirectMessage(slack) =>
        /\ slack.pc = "returned"
        /\ slack.api = <<>>
        /\ ~SessionRan(slack)
        /\ slack.toolsExecuted = 0
        /\ slack.logs = <<>>

\* a direct message with a subtype has been handled
C30_Witness ==
    /\ slack.handler = "message"
    /\ slack.channel_type = "im"
    /\ slack.subtype = "bot_message"
    /\ slack.pc = "returned"

====
